---- MODULE Spec2Model ----
(***************************************************************************)
(* lm-gateway: the router core (route / dispatch / escalate), the config   *)
(* snapshot with hot reload (POST /admin/reload and the mtime watcher),    *)
(* and the traffic ring.                                                    *)
(*                                                                          *)
(* One request task is in flight at a time; it interleaves freely with     *)
(* config reloads, file edits and an admin reader that holds the ring's    *)
(* guard.  Latency and wall-clock timestamps are not modelled.             *)
(***************************************************************************)
EXTENDS Integers, Sequences, FiniteSets, TLC

\* ------------------------------------------------------------------ bounds
MaxRequests == 1      \* route calls per behaviour
MaxEdits    == 1      \* edits of the config file per behaviour
MaxPushes   == 4      \* pushes per behaviour of the ring on its own
MaxCapacity == 3      \* largest ring capacity of the ring on its own
MaxGateRequests == 4  \* route calls per behaviour with the health gate configured
MaxHealthLen == 4     \* longest ring handed to backend_health
MaxSwaps == 2         \* replace_config calls per behaviour of the config lock on its own
MaxMessages == 3      \* longest messages array handed to to_anthropic
MaxBlocks == 3        \* longest content array handed to from_anthropic

\* ------------------------------------------------------- program constants
MIN_CONTENT_LEN       == 20   \* is_sufficient: content.len() < 20
DEFAULT_HEALTH_WINDOW == 10   \* health_window.unwrap_or(10)
DEFAULT_HEALTH_PCT    == 70   \* health_error_threshold.unwrap_or(0.7), in percent
MIN_SAMPLES           == 3    \* samples needed before a backend can be unhealthy

\* ----------------------------------------------------------------- Option
None        == {}
Some(x)     == {x}
IsSome(o)   == o # {}
Unwrap(o)   == CHOOSE x \in o : TRUE
UnwrapOr(o, d) == IF o = {} THEN d ELSE CHOOSE x \in o : TRUE

Min(a, b) == IF a < b THEN a ELSE b

\* ------------------------------------------------------------ environment
\* The process environment: the variables that are set, with their values.
\* ANTH_KEY is not set; EMPTY_KEY is set to the empty string.
EnvSet == {"OPENAI_KEY", "CLIENT_KEY", "ADMIN_TOKEN", "EMPTY_KEY"}
EnvGet(var) ==
  IF var \notin EnvSet THEN None
  ELSE IF var = "EMPTY_KEY" THEN Some("")
  ELSE Some("v-" \o var)

\* ---------------------------------------------------------------- configs
Ollama  == [base_url |-> "http://ollama",  provider |-> "ollama",    api_key_env |-> None]
Ollama2 == [base_url |-> "http://ollama2", provider |-> "ollama",    api_key_env |-> None]
Cloud   == [base_url |-> "http://cloud",   provider |-> "openai",    api_key_env |-> Some("OPENAI_KEY")]
Anth    == [base_url |-> "http://anth",    provider |-> "anthropic", api_key_env |-> Some("ANTH_KEY")]

\* Messages-style backends by the state of their key: the variable named is
\* set to the empty string, no variable is named, the variable is set.
AnthEmpty == [base_url |-> "http://anth-e", provider |-> "anthropic", api_key_env |-> Some("EMPTY_KEY")]
AnthNoEnv == [base_url |-> "http://anth-n", provider |-> "anthropic", api_key_env |-> None]
AnthKeyed == [base_url |-> "http://anth-k", provider |-> "anthropic", api_key_env |-> Some("OPENAI_KEY")]

Tier(n, b, m) == [name |-> n, backend |-> b, model |-> m]
Profile(md, c, mx) == [mode |-> md, classifier |-> c, max_auto_tier |-> mx]

NoMap == [x \in {} |-> x]

CfgBase ==
  [ traffic_log_capacity   |-> 2,
    rate_limit_rpm         |-> Some(60),
    admin_token_env        |-> Some("ADMIN_TOKEN"),
    health_window          |-> None,
    health_error_threshold |-> None,
    backends |-> [ollama |-> Ollama, anth |-> Anth, cloud |-> Cloud],
    tiers    |-> << Tier("fast", "ollama", "m-fast"), Tier("mid", "anth", "m-mid"),
                    Tier("econ", "cloud", "m-econ"), Tier("expert", "cloud", "m-expert") >>,
    aliases  |-> ("hint:fast" :> "fast"),
    profiles |-> [default |-> Profile("dispatch", "fast", "econ"),
                  esc     |-> Profile("escalate", "fast", "econ")],
    clients  |-> << [key_env |-> "CLIENT_KEY", profile |-> "esc"] >> ]

CfgAlt ==
  [ traffic_log_capacity   |-> 1,
    rate_limit_rpm         |-> Some(0),
    admin_token_env        |-> Some("EMPTY_KEY"),
    health_window          |-> None,
    health_error_threshold |-> None,
    backends |-> [ollama |-> Ollama2, cloud |-> Cloud],
    tiers    |-> << Tier("econ", "cloud", "m-econ"), Tier("fast", "ollama", "m-fast2") >>,
    aliases  |-> ("hint:fast" :> "econ") @@ ("econ" :> "fast"),
    profiles |-> [default |-> Profile("escalate", "econ", "nosuch"),
                  esc     |-> Profile("dispatch", "fast", "fast")],
    clients  |-> << >> ]

CfgEmpty ==
  [ traffic_log_capacity   |-> 0,
    rate_limit_rpm         |-> None,
    admin_token_env        |-> None,
    health_window          |-> None,
    health_error_threshold |-> None,
    backends |-> NoMap,
    tiers    |-> << >>,
    aliases  |-> NoMap,
    profiles |-> NoMap,
    clients  |-> << >> ]

CfgGate ==
  [ traffic_log_capacity   |-> 3,
    rate_limit_rpm         |-> Some(30),
    admin_token_env        |-> Some("NO_SUCH_VAR"),
    health_window          |-> Some(10),
    health_error_threshold |-> Some(0 - 10),
    backends |-> [ollama |-> Ollama, cloud |-> Cloud],
    tiers    |-> << Tier("fast", "ollama", "m-fast"), Tier("econ", "cloud", "m-econ") >>,
    aliases  |-> ("hint:fast" :> "fast"),
    profiles |-> [default |-> Profile("escalate", "fast", "econ")],
    clients  |-> << >> ]

\* A config with a named profile and no `default` profile.
CfgNoDefault ==
  [CfgBase EXCEPT !.profiles = [esc |-> Profile("dispatch", "fast", "econ")]]

\* A config whose four tiers sit on four Messages-style backends.
CfgKeys ==
  [ traffic_log_capacity   |-> 2,
    rate_limit_rpm         |-> None,
    admin_token_env        |-> None,
    health_window          |-> None,
    health_error_threshold |-> None,
    backends |-> [unset |-> Anth, empty |-> AnthEmpty, nokey |-> AnthNoEnv, keyed |-> AnthKeyed],
    tiers    |-> << Tier("fast", "unset", "m-fast"), Tier("mid", "empty", "m-mid"),
                    Tier("econ", "nokey", "m-econ"), Tier("expert", "keyed", "m-expert") >>,
    aliases  |-> ("hint:fast" :> "fast"),
    profiles |-> [default |-> Profile("dispatch", "fast", "expert"),
                  esc     |-> Profile("escalate", "fast", "expert")],
    clients  |-> << >> ]

\* The four ways a parseable file can fail validation.
CfgBadBackend    == [CfgBase EXCEPT !.tiers = Append(@, Tier("bad", "nonexistent", "x"))]
CfgBadAlias      == [CfgBase EXCEPT !.aliases = @ @@ ("bad:alias" :> "no-such-tier")]
CfgBadClassifier == [CfgBase EXCEPT !.profiles = @ @@ [bad |-> Profile("dispatch", "no-such-tier", "fast")]]
CfgBadClient     == [CfgBase EXCEPT !.clients = Append(@, [key_env |-> "K2", profile |-> "no-such-profile"])]

\* File contents that parse as TOML into a Config, by name.
CfgIds == {"base", "alt", "empty", "gate", "nodefault", "keys", "bad_backend", "bad_alias", "bad_classifier", "bad_client"}
Cfg(id) ==
  CASE id = "base"           -> CfgBase
    [] id = "alt"            -> CfgAlt
    [] id = "empty"          -> CfgEmpty
    [] id = "gate"           -> CfgGate
    [] id = "nodefault"      -> CfgNoDefault
    [] id = "keys"           -> CfgKeys
    [] id = "bad_backend"    -> CfgBadBackend
    [] id = "bad_alias"      -> CfgBadAlias
    [] id = "bad_classifier" -> CfgBadClassifier
    [] id = "bad_client"     -> CfgBadClient

\* What the config file can hold: a parseable config, text that is not TOML
\* for a Config, or nothing (the file is missing or unreadable).
FileContents == CfgIds \cup {"garbage", "missing"}

\* ------------------------------------------------------------- Config::*
TierNames(cfg) == {cfg.tiers[i].name : i \in DOMAIN cfg.tiers}

\* validate without the [[clients]] loop.
Validate_no_clients(cfg) ==
  /\ \A i \in DOMAIN cfg.tiers : cfg.tiers[i].backend \in DOMAIN cfg.backends
  /\ \A a \in DOMAIN cfg.aliases : cfg.aliases[a] \in TierNames(cfg)
  /\ \A p \in DOMAIN cfg.profiles : cfg.profiles[p].classifier \in TierNames(cfg)

\* Config::validate: the four ensure! loops; TRUE when all pass.
Validate(cfg) ==
  /\ \A i \in DOMAIN cfg.tiers : cfg.tiers[i].backend \in DOMAIN cfg.backends
  /\ \A a \in DOMAIN cfg.aliases : cfg.aliases[a] \in TierNames(cfg)
  /\ \A p \in DOMAIN cfg.profiles : cfg.profiles[p].classifier \in TierNames(cfg)
  /\ \A i \in DOMAIN cfg.clients : cfg.clients[i].profile \in DOMAIN cfg.profiles

\* Config::load: read_to_string, toml::from_str, validate.  The result is the
\* Ok(config) (by name) or the empty Option on any of the three failures.
Load(content) ==
  IF content = "missing" THEN None                \* reading fails
  ELSE IF content \notin CfgIds THEN None         \* parsing fails
  ELSE IF ~Validate(Cfg(content)) THEN None       \* validate()? fails
  ELSE Some(content)

\* The element at the 0-based index i of a Vec.
At(vec, i) == vec[i + 1]

\* tiers.iter().position(|t| t.name == name): the lowest matching 0-based
\* index, as an Option.
Position(tiers, name) ==
  LET hits == {i \in 0..(Len(tiers) - 1) : At(tiers, i).name = name}
  IN  IF hits = {} THEN None ELSE Some(CHOOSE i \in hits : \A j \in hits : i <= j)

\* tiers.iter().find(|t| t.name == name)
FindTier(tiers, name) ==
  LET p == Position(tiers, name)
  IN  IF p = None THEN None ELSE Some(At(tiers, Unwrap(p)))

\* A resolve_tier that keeps following aliases while the name it has is an
\* alias key (at most as many steps as there are aliases).
RECURSIVE FollowAliases(_, _, _)
FollowAliases(cfg, name, steps) ==
  IF steps = 0 \/ name \notin DOMAIN cfg.aliases THEN name
  ELSE FollowAliases(cfg, cfg.aliases[name], steps - 1)
resolve_tier_transitive(cfg, model) ==
  FindTier(cfg.tiers, FollowAliases(cfg, model, 2))

\* A resolve_tier that tries the string as a tier name before it tries it
\* as an alias key.
resolve_tier_direct_first(cfg, model) ==
  IF IsSome(FindTier(cfg.tiers, model)) THEN FindTier(cfg.tiers, model)
  ELSE IF model \in DOMAIN cfg.aliases THEN FindTier(cfg.tiers, cfg.aliases[model])
  ELSE None

\* Config::resolve_tier
resolve_tier(cfg, model) ==
  LET tier_name == IF model \in DOMAIN cfg.aliases THEN cfg.aliases[model] ELSE model
  IN  FindTier(cfg.tiers, tier_name)

\* A profile lookup that falls back to whatever profile there is when
\* `default` is missing.
profile_of_any(cfg, name) ==
  IF name \in DOMAIN cfg.profiles THEN Some(cfg.profiles[name])
  ELSE IF "default" \in DOMAIN cfg.profiles THEN Some(cfg.profiles["default"])
  ELSE IF DOMAIN cfg.profiles # {} THEN Some(cfg.profiles[CHOOSE p \in DOMAIN cfg.profiles : TRUE])
  ELSE None

\* A profile lookup without the fall-back to `default`.
profile_of_no_fallback(cfg, name) ==
  IF name \in DOMAIN cfg.profiles THEN Some(cfg.profiles[name]) ELSE None

\* Config::profile
profile_of(cfg, name) ==
  IF name \in DOMAIN cfg.profiles THEN Some(cfg.profiles[name])
  ELSE IF "default" \in DOMAIN cfg.profiles THEN Some(cfg.profiles["default"])
  ELSE None

\* BackendConfig::api_key
api_key(desc) ==
  IF desc.api_key_env = None THEN None ELSE EnvGet(Unwrap(desc.api_key_env))

\* BackendClient::new: TRUE when an adapter is built, FALSE when it returns Err.
BackendClientNew(desc) ==
  IF desc.provider = "anthropic" THEN IsSome(api_key(desc)) ELSE TRUE

\* --------------------------------------------------- RouterState::new
\* std::env::var(var).ok().filter(|v| !v.is_empty())
EnvNonEmpty(var) == IF EnvGet(var) = Some("") THEN None ELSE EnvGet(var)

\* rate_limit_rpm.filter(|&rpm| rpm > 0).map(RateLimiter::new): the limiter,
\* by its requests-per-minute.
new_rate_limiter(cfg) ==
  IF cfg.rate_limit_rpm # None /\ Unwrap(cfg.rate_limit_rpm) > 0
  THEN cfg.rate_limit_rpm ELSE None

\* admin_token_env.and_then(|var| env::var(var).ok()).filter(|t| !t.is_empty())
new_admin_token(cfg) ==
  IF cfg.admin_token_env = None THEN None
  ELSE EnvNonEmpty(Unwrap(cfg.admin_token_env))

\* clients.iter().filter_map(..).collect(): key -> profile for every client
\* whose key_env is set and not empty; a later entry replaces an earlier
\* one with the same key.
new_client_map(cfg) ==
  LET keyed == {i \in DOMAIN cfg.clients : IsSome(EnvNonEmpty(cfg.clients[i].key_env))}
      key(i) == Unwrap(EnvNonEmpty(cfg.clients[i].key_env))
      last(k) == CHOOSE i \in keyed : key(i) = k /\ \A j \in keyed : key(j) = k => j <= i
  IN  [k \in {key(i) : i \in keyed} |-> cfg.clients[last(k)].profile]

\* --------------------------------------------------------- is_sufficient
\* An upstream response body, as far as is_sufficient reads it: the string
\* at /choices/0/message/content when there is one, by its length and by
\* whether its lower-cased text contains one of the refusal phrases.  len is
\* what str::len returns, the length in bytes of the UTF-8 text; chars is
\* the number of characters, the same as len for ASCII text.
Content(len, refuses) == [len |-> len, chars |-> len, refusal |-> refuses]
Utf8Content(chars, len, refuses) == [len |-> len, chars |-> chars, refusal |-> refuses]
Responses ==
  { [content |-> None],
    [content |-> Some(Content(19, FALSE))],
    [content |-> Some(Content(20, FALSE))],
    [content |-> Some(Content(40, TRUE))] }
NoResponse == [content |-> None]

\* is_sufficient without the refusal-phrase test.
is_sufficient_no_refusal_test(response) ==
  UnwrapOr(response.content, Content(0, FALSE)).len >= MIN_CONTENT_LEN

is_sufficient(response) ==
  LET content == UnwrapOr(response.content, Content(0, FALSE))
  IN  IF content.len < MIN_CONTENT_LEN THEN FALSE
      ELSE IF content.refusal THEN FALSE
      ELSE TRUE

\* ----------------------------------------------------------- TrafficLog
\* TrafficEntry::new (the id is the request's id; latency is not modelled).
TrafficEntry(id, tier, backend, success) ==
  [ id |-> id, tier |-> tier, backend |-> backend,
    profile |-> None, requested_model |-> None, routing_mode |-> None,
    escalated |-> FALSE, success |-> success, error |-> None ]
mark_escalated(e)           == [e EXCEPT !.escalated = TRUE]
with_profile(e, p)          == [e EXCEPT !.profile = Some(p)]
with_requested_model(e, m)  == [e EXCEPT !.requested_model = Some(m)]
with_routing_mode(e, m)     == [e EXCEPT !.routing_mode = Some(m)]

\* TrafficLog::push with the guard acquired: evict the front when
\* len == capacity, then push_back.
PushLocked(entries, cap, entry) ==
  IF Len(entries) = cap
    THEN Append(IF entries = << >> THEN entries ELSE Tail(entries), entry)
    ELSE Append(entries, entry)

\* A push that waits for the guard and then appends.
Push_waiting(entries, cap, guardFree, entry) == PushLocked(entries, cap, entry)

\* TrafficLog::push: try_lock, and drop the entry when the guard is held.
Push(entries, cap, guardFree, entry) ==
  IF guardFree THEN PushLocked(entries, cap, entry) ELSE entries

\* A total that counts the successful entries only.
StatsTotal_successes(entries) == Cardinality({i \in DOMAIN entries : entries[i].success})

\* TrafficLog::stats: total_requests = entries.len()
StatsTotal(entries) == Len(entries)

Reverse(s) == [i \in 1..Len(s) |-> s[Len(s) + 1 - i]]

\* TrafficLog::recent: iter().rev().take(limit)
Recent(entries, limit) == SubSeq(Reverse(entries), 1, Min(limit, Len(entries)))

\* The entries pushes have appended so far, after one more push.
Accept(acc, guardFree, entry) == IF guardFree THEN Append(acc, entry) ELSE acc

\* The report with the verdict taken at any total and a strict comparison.
backend_health_strict(ents, window, pct) ==
  LET recent == Recent(ents, window)
      names  == {recent[i].backend : i \in DOMAIN recent}
      Of(b)  == LET total  == Cardinality({i \in DOMAIN recent : recent[i].backend = b})
                    errors == Cardinality({i \in DOMAIN recent :
                                             recent[i].backend = b /\ ~recent[i].success})
                IN  [ total |-> total, errors |-> errors,
                      healthy |-> (errors * 100 < pct * total) ]
  IN  [b \in names |-> Of(b)]

\* TrafficLog::backend_health(window, threshold): per backend seen among the
\* `window` most recent entries, the totals and the verdict.  The threshold
\* is in percent, so error_rate <= threshold is errors * 100 <= pct * total.
backend_health(ents, window, pct) ==
  LET recent == Recent(ents, window)
      names  == {recent[i].backend : i \in DOMAIN recent}
      Of(b)  == LET total  == Cardinality({i \in DOMAIN recent : recent[i].backend = b})
                    errors == Cardinality({i \in DOMAIN recent :
                                             recent[i].backend = b /\ ~recent[i].success})
                IN  [ total |-> total, errors |-> errors,
                      healthy |-> (total < MIN_SAMPLES \/ errors * 100 <= pct * total) ]
  IN  [b \in names |-> Of(b)]

NoHealth == [window |-> 0, pct |-> 0, report |-> NoMap]

\* GatewayConfig::health_window / health_error_threshold with the defaults
\* their readers apply.
health_window(cfg) == UnwrapOr(cfg.health_window, DEFAULT_HEALTH_WINDOW)
health_threshold(cfg) == UnwrapOr(cfg.health_error_threshold, DEFAULT_HEALTH_PCT)


\* ------------------------------------------ Messages-style SSE translator
\* Upstream bytes are symbols: a symbol is one byte, except that the ASCII
\* strings "event: ", "data: ", an event name, a stop reason and "{}" are one
\* symbol each.  "L" "C" are the two bytes of one two-byte UTF-8 character;
\* decoded text holds the character "LC" or U+FFFD.
LF   == "\n"
CR   == "\r"
FFFD == "U+FFFD"

RECURSIVE from_utf8_lossy(_)
\* String::from_utf8_lossy(&bytes) on one chunk: an incomplete or stray
\* byte of a multi-byte character becomes U+FFFD.
from_utf8_lossy(bytes) ==
  IF bytes = << >> THEN << >>
  ELSE IF bytes[1] = "L"
    THEN IF Len(bytes) >= 2 /\ bytes[2] = "C"
           THEN << "LC" >> \o from_utf8_lossy(SubSeq(bytes, 3, Len(bytes)))
           ELSE << FFFD >> \o from_utf8_lossy(Tail(bytes))
  ELSE IF bytes[1] = "C"
    THEN << FFFD >> \o from_utf8_lossy(Tail(bytes))
  ELSE << bytes[1] >> \o from_utf8_lossy(Tail(bytes))

\* buf.find('\n'): the 1-based position of the first newline, 0 for None.
FindNewline(buf) ==
  IF \E i \in DOMAIN buf : buf[i] = LF
    THEN CHOOSE i \in DOMAIN buf : buf[i] = LF /\ \A k \in 1..(i - 1) : buf[k] # LF
    ELSE 0

RECURSIVE trim_end_cr(_)
\* trim_end_matches('\r')
trim_end_cr(line) ==
  IF line # << >> /\ line[Len(line)] = CR
    THEN trim_end_cr(SubSeq(line, 1, Len(line) - 1))
    ELSE line

\* serde_json::from_str(data) succeeds; "!" stands for malformed JSON.
ParseOk(data) == data # << >> /\ \A i \in DOMAIN data : data[i] # "!"
\* v.pointer(..).and_then(Value::as_str): the payload's string, absent in "{}".
Pointer(data) == IF data = << "{}" >> THEN None ELSE Some(data)

MSG_ID == "msg-id"
Chunk(mdl, delta, finish) ==
  [ id |-> MSG_ID, object |-> "chat.completion.chunk", model |-> mdl,
    delta |-> delta, finish_reason |-> finish ]
Delta(role, content) == [role |-> role, content |-> content]
DoneFrame == [ id |-> "", object |-> "[DONE]", model |-> << >>,
               delta |-> Delta(None, None), finish_reason |-> None ]
NoFrame   == [ id |-> "", object |-> "", model |-> << >>,
               delta |-> Delta(None, None), finish_reason |-> None ]

\* message_delta: Anthropic stop reasons to OpenAI finish reasons.
FinishReason(r) ==
  IF r = << "end_turn" >> THEN << "stop" >>
  ELSE IF r = << "max_tokens" >> THEN << "length" >>
  ELSE r

\* translate_sse_event(event_type, data, msg_id, &mut model): the frame to
\* emit, if any, and the model name afterwards.
translate_sse_event(event_type, data, mdl) ==
  IF event_type = << "message_start" >>
    THEN LET m == IF ParseOk(data) /\ IsSome(Pointer(data)) THEN data ELSE mdl
         IN  [ out |-> Some(Chunk(m, Delta(Some("assistant"), Some(<< >>)), None)),
               model |-> m ]
  ELSE IF event_type = << "content_block_delta" >>
    THEN IF ParseOk(data) /\ IsSome(Pointer(data))
           THEN [ out |-> Some(Chunk(mdl, Delta(None, Some(data)), None)), model |-> mdl ]
           ELSE [ out |-> None, model |-> mdl ]
  ELSE IF event_type = << "message_delta" >>
    THEN IF ParseOk(data)
           THEN [ out |-> Some(Chunk(mdl, Delta(None, None),
                                     IF IsSome(Pointer(data))
                                       THEN Some(FinishReason(data)) ELSE None)),
                  model |-> mdl ]
           ELSE [ out |-> None, model |-> mdl ]
  ELSE [ out |-> None, model |-> mdl ]

\* What travels on the mpsc channel: anyhow::Result<Bytes>.
OkItem(frame) == [kind |-> "ok", frame |-> frame]
ErrItem       == [kind |-> "err", frame |-> NoFrame]

\* A channel that hands out the newest item first.
Enqueue_at_head(queue, item) == << item >> \o queue

\* tx.send on an open channel with room: the item joins the queue's tail.
Enqueue(queue, item) == Append(queue, item)


\* ---------------------------------------------------------- to_anthropic
DEFAULT_MAX_TOKENS == 8192

\* A message's content: a JSON string, or an array of content parts (which
\* carries text as well).
Str(t)   == [kind |-> "string", text |-> t]
Parts(t) == [kind |-> "parts", text |-> t]
Msg(role, content) == [role |-> role, content |-> content]

\* Value::as_str
as_str(content) == IF content.kind = "string" THEN Some(content.text) ELSE None

\* [&str]::join
RECURSIVE join(_, _)
join(parts, sep) ==
  IF parts = << >> THEN ""
  ELSE IF Len(parts) = 1 THEN parts[1]
  ELSE parts[1] \o sep \o join(Tail(parts), sep)

\* The loop over raw_messages, lines 233-241, from the message at the head
\* of raw on, with system_parts and messages as collected so far.
RECURSIVE CollectMessages(_, _, _)
CollectMessages(raw, system_parts, messages) ==
  IF raw = << >> THEN [system_parts |-> system_parts, messages |-> messages]
  ELSE LET msg == Head(raw)
       IN  IF msg.role = "system"
             THEN IF as_str(msg.content) # None
                    THEN CollectMessages(Tail(raw),
                                         Append(system_parts, Unwrap(as_str(msg.content))),
                                         messages)
                    ELSE CollectMessages(Tail(raw), system_parts, messages)
             ELSE CollectMessages(Tail(raw), system_parts, Append(messages, msg))

NoAnthropicRequest ==
  [ model |-> "", max_tokens |-> 0, messages |-> << >>, system |-> None,
    temperature |-> None, stop_sequences |-> None ]
NotTranslated   == [kind |-> "none", msg |-> "", req |-> NoAnthropicRequest]
TranslateErr(m) == [kind |-> "error", msg |-> m, req |-> NoAnthropicRequest]
TranslateOk(r)  == [kind |-> "ok", msg |-> "", req |-> r]

\* to_anthropic.  A field of the request is an Option: None when the body
\* lacks it or holds a value of another type.
to_anthropic(req) ==
  IF req.model = None THEN TranslateErr("model field is required")
  ELSE IF req.messages = None THEN TranslateErr("messages array is required")
  ELSE LET split == CollectMessages(Unwrap(req.messages), << >>, << >>)
       IN  TranslateOk(
             [ model          |-> Unwrap(req.model),
               max_tokens     |-> UnwrapOr(req.max_tokens, DEFAULT_MAX_TOKENS),
               messages       |-> split.messages,
               system         |-> IF split.system_parts = << >> THEN None
                                  ELSE Some(join(split.system_parts, "\n\n")),
               temperature    |-> req.temperature,
               stop_sequences |-> req.stop ])

\* --------------------------------------------------------- from_anthropic
\* A block of the response's content array; text is an Option, None when
\* the block has no text string.
Block(type, text) == [type |-> type, text |-> text]

\* The block a search from the end of the array would find.
FirstTextBlock_from_end(blocks) ==
  LET hits == {i \in DOMAIN blocks : blocks[i].type = "text"}
  IN  IF hits = {} THEN None ELSE Some(blocks[CHOOSE i \in hits : \A j \in hits : j <= i])

\* blocks.iter().find(|b| b["type"] == "text")
FirstTextBlock(blocks) ==
  LET hits == {i \in DOMAIN blocks : blocks[i].type = "text"}
  IN  IF hits = {} THEN None ELSE Some(blocks[CHOOSE i \in hits : \A j \in hits : i <= j])

\* A mapping that hands every stop reason on as it is.
MapStopReason_unmapped(r) == r

\* from_anthropic, lines 277-281: the match on the stop reason.
MapStopReason(r) ==
  IF r = "end_turn" THEN "stop"
  ELSE IF r = "max_tokens" THEN "length"
  ELSE r

NoCompletion ==
  [ id |-> None, object |-> "", model |-> "", choices |-> << >>,
    usage |-> [prompt_tokens |-> 0, completion_tokens |-> 0, total_tokens |-> 0] ]
NotCompleted     == [kind |-> "none", msg |-> "", body |-> NoCompletion]
CompletionErr(m) == [kind |-> "error", msg |-> m, body |-> NoCompletion]
CompletionOk(b)  == [kind |-> "ok", msg |-> "", body |-> b]

\* from_anthropic.  A field of the response is an Option: None when the
\* body lacks it or holds a value of another type.
from_anthropic(rsp) ==
  LET found == IF rsp.content = None THEN None ELSE FirstTextBlock(Unwrap(rsp.content))
      text  == IF found = None THEN None ELSE Unwrap(found).text
      input_tokens  == UnwrapOr(rsp.input_tokens, 0)
      output_tokens == UnwrapOr(rsp.output_tokens, 0)
  IN  IF text = None
        THEN CompletionErr("no text block in Anthropic response content array")
        ELSE CompletionOk(
               [ id      |-> rsp.id,
                 object  |-> "chat.completion",
                 model   |-> UnwrapOr(rsp.model, "unknown"),
                 choices |-> << [ index         |-> 0,
                                  message       |-> [role |-> "assistant", content |-> Unwrap(text)],
                                  finish_reason |-> MapStopReason(UnwrapOr(rsp.stop_reason, "stop")) ] >>,
                 usage   |-> [ prompt_tokens     |-> input_tokens,
                               completion_tokens |-> output_tokens,
                               total_tokens      |-> input_tokens + output_tokens ] ])

\* ================================================================= state
VARIABLES
  live,          \* RouterState.config_lock: the installed Arc<Config>, by name
  file,          \* what the config file at config_path holds
  mtime,         \* the file's modification time (an Option: None when missing)
  last_mtime,    \* config_watcher: last_mtime
  wpc,           \* where config_watcher is: "start" or "loop"
  edits,         \* number of file edits so far
  lastReload,    \* how the last reload attempt ended: "none", "ok" or "failed"
  entries,       \* TrafficLog.entries
  capacity,      \* TrafficLog.capacity
  guard,         \* TrafficLog.entries' mutex: "free" or "reader"
  pc,            \* where the request task is
  reqNo,         \* number of route calls started; the current request's id
  stream,        \* route: stream
  profile_name,  \* route: profile_name
  model_hint,    \* route: model_hint
  config,        \* route: config (the snapshot read at entry), by name
  profile,       \* route: profile
  target_tier,   \* route: target_tier
  config2,       \* dispatch / escalate: config (their own read), by name
  tier_idx,      \* escalate: tier_idx
  max_idx,       \* escalate: max_idx
  result,        \* what route returned
  calls,         \* the upstream calls this request made, in order
  pushes,        \* the entries this request handed to TrafficLog::push
  accepted,      \* every entry a push appended (the guard was free), in order
  health,        \* the last backend_health report computed
  upstream,      \* reader task: the bytes byte_stream has yet to yield
  consumed,      \* the bytes byte_stream has yielded so far
  ended,         \* how byte_stream ended: "open", "closed" or "failed"
  rpc,           \* where the reader task is
  buf,           \* reader task: buf
  event_type,    \* reader task: event_type
  model,         \* reader task: model
  out,           \* reader task: the frame translate_sse_event returned
  chan,          \* the mpsc channel's queue
  dropped,       \* the client dropped the returned stream (rx)
  received,      \* the items the returned stream yielded, in order
  sent,          \* every item a send put on the channel, in order
  origin,        \* for each item of sent, the number of the line it came from
  lines,         \* the lines the reader task completed, in order
  cfg_lock,      \* RouterState.config_lock: "free", "read" or "write"
  installs,      \* every Arc<Config> the lock has held, in order (by config name)
  snap_pc,       \* where a config() call is
  snap_floor,    \* the number of installs when that config() call began
  snap,          \* the Arc the last config() call returned: install number and config
  swap_pc,       \* where a replace_config call is
  swap_new,      \* replace_config: new
  client_map,    \* RouterState.client_map
  admin_token,   \* RouterState.admin_token
  rate_limiter,  \* RouterState.rate_limiter
  config_path,   \* RouterState.config_path
  started_at,    \* RouterState.started_at
  request,       \* to_anthropic: request
  translated,    \* what to_anthropic returned
  resp,          \* from_anthropic: resp
  completion,    \* what from_anthropic returned
  tpc,           \* where the GET /admin/traffic handler is
  traffic_out    \* traffic: q.limit, entries and stats, and the pushes accepted at each read

vars == << live, file, mtime, last_mtime, wpc, edits, lastReload,
           entries, capacity, guard, accepted, health,
           pc, reqNo, stream, profile_name, model_hint, config, profile,
           target_tier, config2, tier_idx, max_idx, result, calls, pushes,
           upstream, consumed, ended, rpc, buf, event_type, model, out, chan, dropped,
           received, sent, origin, lines,
           cfg_lock, installs, snap_pc, snap_floor, snap, swap_pc, swap_new,
           client_map, admin_token, rate_limiter, config_path, started_at,
           request, translated, resp, completion, tpc, traffic_out >>

cfgVars  == << live, file, mtime, last_mtime, wpc, edits, lastReload >>
ringVars == << entries, capacity, guard, accepted, health >>
reqVars  == << pc, reqNo, stream, profile_name, model_hint, config, profile,
               target_tier, config2, tier_idx, max_idx, result, calls, pushes >>
sseVars  == << upstream, consumed, ended, rpc, buf, event_type, model, out, chan, dropped,
               received, sent, origin, lines >>
lockVars == << cfg_lock, installs, snap_pc, snap_floor, snap, swap_pc, swap_new >>
fixedVars == << client_map, admin_token, rate_limiter, config_path, started_at >>
xlatVars == << request, translated >>
respVars == << resp, completion >>
qryVars  == << tpc, traffic_out >>

NoTier    == Tier("", "", "")
NoProfile == Profile("", "", "")
NoEntry   == TrafficEntry(0, "", "", FALSE)
NoResult  == [kind |-> "none", msg |-> "", response |-> NoResponse, entry |-> NoEntry]
Err(msg)  == [kind |-> "error", msg |-> msg, response |-> NoResponse, entry |-> NoEntry]
Panic(msg) == [kind |-> "panic", msg |-> msg, response |-> NoResponse, entry |-> NoEntry]
Ok(response, entry) == [kind |-> "ok", msg |-> "", response |-> response, entry |-> entry]

\* The configs a process can start with: main exits when Config::load fails.
StartupContents == {c \in FileContents : IsSome(Load(c))}

InitConfig ==
  /\ file \in StartupContents
  /\ live = Unwrap(Load(file))
  /\ mtime = Some(0)
  /\ last_mtime = mtime
  /\ wpc = "loop"
  /\ edits = 0
  /\ lastReload = "none"

InitRequest ==
  /\ pc = "idle"
  /\ reqNo = 0
  /\ stream = FALSE
  /\ profile_name = ""
  /\ model_hint = ""
  /\ config = live
  /\ profile = NoProfile
  /\ target_tier = NoTier
  /\ config2 = live
  /\ tier_idx = 0
  /\ max_idx = 0
  /\ result = NoResult
  /\ calls = << >>
  /\ pushes = << >>

\* main: TrafficLog::new(config.gateway.traffic_log_capacity)
InitTraffic ==
  /\ entries = << >>
  /\ capacity = Cfg(live).traffic_log_capacity
  /\ guard = "free"
  /\ accepted = << >>
  /\ health = NoHealth

\* chat_completions_stream, lines 157-164: the channel and the reader
\* task's locals as the task starts, with the bytes the upstream will send.
InitReader(bytes) ==
  /\ upstream = bytes
  /\ consumed = << >>
  /\ ended = "open"
  /\ rpc = "read"
  /\ buf = << >>
  /\ event_type = << >>
  /\ model = << "unknown" >>
  /\ out = NoFrame
  /\ chan = << >>
  /\ dropped = FALSE
  /\ received = << >>
  /\ sent = << >>
  /\ origin = << >>
  /\ lines = << >>

\* No streaming call is open.
InitNoStream == InitReader(<< >>)

\* RouterState::new: the lock holds the startup config; no call is under way.
NoSnap == [install |-> 0, cfg |-> ""]
InitLock ==
  /\ cfg_lock = "free"
  /\ installs = << live >>
  /\ snap_pc = "idle"
  /\ snap_floor = 1
  /\ snap = NoSnap
  /\ swap_pc = "idle"
  /\ swap_new = ""

\* RouterState::new: the fields derived from the startup config, and main's
\* config_path; started_at is the instant of construction.
CONFIG_PATH == "lmg.toml"
InitFixed ==
  /\ client_map = new_client_map(Cfg(live))
  /\ admin_token = new_admin_token(Cfg(live))
  /\ rate_limiter = new_rate_limiter(Cfg(live))
  /\ config_path = CONFIG_PATH
  /\ started_at = 0

\* No request is being translated.
NoRequest ==
  [model |-> None, max_tokens |-> None, messages |-> None, temperature |-> None, stop |-> None]
InitNoTranslate ==
  /\ request = NoRequest
  /\ translated = NotTranslated

\* No response is being translated.
NoAnthropicResponse ==
  [ id |-> None, model |-> None, content |-> None, stop_reason |-> None,
    input_tokens |-> None, output_tokens |-> None ]
InitNoResponse ==
  /\ resp = NoAnthropicResponse
  /\ completion = NotCompleted

\* No GET /admin/traffic has been made.
NoTrafficAnswer == [limit |-> 0, entries |-> << >>, total_requests |-> 0, seen |-> 0, counted |-> 0]
InitNoQuery ==
  /\ tpc = "idle"
  /\ traffic_out = NoTrafficAnswer

Init == InitConfig /\ InitRequest /\ InitTraffic /\ InitNoStream /\ InitLock /\ InitFixed /\ InitNoQuery
        /\ InitNoTranslate /\ InitNoResponse

\* ---------------------------------------------------------------- reload
\* A reload that installs whatever parses, whether or not load succeeded.
Installed_unchecked(current, content) ==
  IF content \in CfgIds THEN content ELSE current

\* What a reload leaves installed: replace_config runs in the Ok arm only.
Installed(current, content) ==
  IF IsSome(Load(content)) THEN Unwrap(Load(content)) ELSE current

ReloadOutcome(content) == IF IsSome(Load(content)) THEN "ok" ELSE "failed"

\* Someone rewrites, replaces or removes the config file.
EditFile(content) ==
  /\ file' = content
  /\ edits' = edits + 1
  /\ mtime' = IF content = "missing" THEN None ELSE Some(edits + 1)
  /\ UNCHANGED << live, last_mtime, wpc, lastReload >>
  /\ UNCHANGED << ringVars, reqVars, sseVars, lockVars, fixedVars, qryVars, xlatVars, respVars >>

\* A reload that also rebuilds the client keys from what it installs.
AdminReload_rebuilds ==
  /\ live' = Installed(live, file)
  /\ lastReload' = ReloadOutcome(file)
  /\ client_map' = new_client_map(Cfg(live'))
  /\ UNCHANGED << file, mtime, last_mtime, wpc, edits >>
  /\ UNCHANGED << admin_token, rate_limiter, config_path, started_at, qryVars >>
  /\ UNCHANGED << ringVars, reqVars, sseVars, lockVars, xlatVars, respVars >>

\* POST /admin/reload
AdminReload ==
  /\ live' = Installed(live, file)
  /\ lastReload' = ReloadOutcome(file)
  /\ UNCHANGED << file, mtime, last_mtime, wpc, edits >>
  /\ UNCHANGED << ringVars, reqVars, sseVars, lockVars, fixedVars, qryVars, xlatVars, respVars >>

\* config_watcher, lines 155-162: the task starts, records the file's mtime
\* and passes the first, immediate tick.
WatcherStart ==
  /\ wpc = "start"
  /\ wpc' = "loop"
  /\ last_mtime' = mtime
  /\ UNCHANGED << live, file, mtime, edits, lastReload >>
  /\ UNCHANGED << ringVars, reqVars, sseVars, lockVars, fixedVars, qryVars, xlatVars, respVars >>

\* config_watcher: one pass of the loop body after interval.tick().
WatcherTick ==
  /\ wpc = "loop"
  /\ mtime # last_mtime
  /\ live' = Installed(live, file)
  /\ last_mtime' = IF IsSome(Load(file)) THEN mtime ELSE last_mtime
  /\ lastReload' = ReloadOutcome(file)
  /\ UNCHANGED << file, mtime, edits, wpc >>
  /\ UNCHANGED << ringVars, reqVars, sseVars, lockVars, fixedVars, qryVars, xlatVars, respVars >>

\* ------------------------------------------------------------ ring reader
\* An admin reader (recent or stats) takes the guard ...
ReaderLock ==
  /\ guard = "free"
  /\ guard' = "reader"
  /\ UNCHANGED << entries, capacity, accepted, health, cfgVars, reqVars, sseVars, lockVars, fixedVars, qryVars, xlatVars, respVars >>

\* ... and drops it.
ReaderUnlock ==
  /\ guard = "reader"
  /\ guard' = "free"
  /\ UNCHANGED << entries, capacity, accepted, health, cfgVars, reqVars, sseVars, lockVars, fixedVars, qryVars, xlatVars, respVars >>


\* --------------------------------------------------- GET /admin/traffic
\* traffic, line 69: the handler calls recent(q.limit), which waits for the
\* ring's mutex.
TrafficCall(limit) ==
  /\ tpc = "idle"
  /\ tpc' = "recent"
  /\ traffic_out' = [NoTrafficAnswer EXCEPT !.limit = limit]
  /\ UNCHANGED << cfgVars, ringVars, reqVars, sseVars, lockVars, fixedVars, xlatVars, respVars >>

\* recent: entries.lock().await is granted.
RecentLock ==
  /\ tpc = "recent"
  /\ guard = "free"
  /\ guard' = "traffic"
  /\ tpc' = "recent_locked"
  /\ UNCHANGED << traffic_out, entries, capacity, accepted, health >>
  /\ UNCHANGED << cfgVars, reqVars, sseVars, lockVars, fixedVars, xlatVars, respVars >>

\* recent returns the newest entries and drops the guard; the handler goes
\* on to stats(), which waits for the mutex again.
RecentReturn ==
  /\ tpc = "recent_locked"
  /\ traffic_out' = [traffic_out EXCEPT !.entries = Recent(entries, traffic_out.limit),
                                        !.seen = Len(accepted)]
  /\ guard' = "free"
  /\ tpc' = "stats"
  /\ UNCHANGED << entries, capacity, accepted, health >>
  /\ UNCHANGED << cfgVars, reqVars, sseVars, lockVars, fixedVars, xlatVars, respVars >>

\* stats: entries.lock().await is granted.
StatsLock ==
  /\ tpc = "stats"
  /\ guard = "free"
  /\ guard' = "traffic"
  /\ tpc' = "stats_locked"
  /\ UNCHANGED << traffic_out, entries, capacity, accepted, health >>
  /\ UNCHANGED << cfgVars, reqVars, sseVars, lockVars, fixedVars, xlatVars, respVars >>

\* stats returns the aggregate and drops the guard; the handler answers.
StatsReturn ==
  /\ tpc = "stats_locked"
  /\ traffic_out' = [traffic_out EXCEPT !.total_requests = StatsTotal(entries),
                                        !.counted = Len(accepted)]
  /\ guard' = "free"
  /\ tpc' = "done"
  /\ UNCHANGED << entries, capacity, accepted, health >>
  /\ UNCHANGED << cfgVars, reqVars, sseVars, lockVars, fixedVars, xlatVars, respVars >>

\* ----------------------------------------------------------------- route
ProfileNames == {None, Some("esc")}
BodyModels   == {None, Some("mid"), Some("zzz")}
Streams      == {FALSE}

\* The upstream's answer to one chat_completions call.
CallErr       == [kind |-> "err", response |-> NoResponse]
CallOk(r)     == [kind |-> "ok", response |-> r]
CallPending   == [kind |-> "pending", response |-> NoResponse]
Outcomes      == {CallErr} \cup {CallOk(r) : r \in Responses}

\* The rewrite with the tier's name in place of its model.
rewrite_body_tier_name(tier, strm) == [model |-> tier.name, stream |-> strm]

\* The body as dispatch / escalate rewrite it before the call.
rewrite_body(tier, strm) == [model |-> tier.model, stream |-> strm]

\* The key BackendClient::new hands to the adapter it builds: none for
\* Ollama, the resolved key (or none) for OpenAI, the key for Anthropic.
adapter_key(desc) == IF desc.provider = "ollama" THEN None ELSE api_key(desc)

\* One upstream chat_completions call, as issued.
Call(idx, tier, desc, body) ==
  [ tier_idx |-> idx, tier |-> tier.name, backend |-> tier.backend,
    base_url |-> desc.base_url, body |-> body, outcome |-> CallPending,
    method |-> "chat_completions",
    provider |-> desc.provider, api_key |-> adapter_key(desc) ]

SetOutcome(cs, o) == [cs EXCEPT ![Len(cs)].outcome = o]

\* An enrichment that records the tier that answered as the requested model.
Enrich_answering_tier(entry, pname, hint, prof, id) ==
  [ with_routing_mode(with_requested_model(with_profile(entry, pname), entry.tier), prof.mode)
      EXCEPT !.id = id ]

\* route, lines 170-181: the entry enriched with request-level context.
Enrich(entry, pname, hint, prof, id) ==
  [ with_routing_mode(with_requested_model(with_profile(entry, pname), hint), prof.mode)
      EXCEPT !.id = id ]

\* A body without a model string gets the empty string as its hint.
model_hint_of_empty(bm) == UnwrapOr(bm, "")

\* request_body.get("model").and_then(Value::as_str).unwrap_or("hint:fast"):
\* bm is the model when the body has one that is a string, None otherwise.
model_hint_of(bm) == UnwrapOr(bm, "hint:fast")

\* route: from entry up to the match on profile.mode.
Route(pn, bm, strm) ==
  /\ pc \in {"idle", "done"}
  /\ reqNo' = reqNo + 1
  /\ stream' = strm
  /\ profile_name' = UnwrapOr(pn, "default")
  /\ config' = live
  /\ model_hint' = model_hint_of(bm)
  /\ calls' = << >>
  /\ pushes' = << >>
  /\ config2' = live
  /\ tier_idx' = 0
  /\ max_idx' = 0
  /\ LET cfg      == Cfg(live)
         prof     == profile_of(cfg, profile_name')
         resolved == resolve_tier(cfg, model_hint')
         target   == IF IsSome(resolved) THEN resolved
                     ELSE FindTier(cfg.tiers, Unwrap(prof).classifier)
     IN  IF prof = None
           THEN /\ pc' = "done"
                /\ result' = Err("no matching profile and no default profile configured")
                /\ profile' = NoProfile
                /\ target_tier' = NoTier
         ELSE IF target = None
           THEN /\ pc' = "done"
                /\ result' = Err("classifier tier not found")
                /\ profile' = Unwrap(prof)
                /\ target_tier' = NoTier
         ELSE   /\ pc' = Unwrap(prof).mode
                /\ result' = NoResult
                /\ profile' = Unwrap(prof)
                /\ target_tier' = Unwrap(target)
  /\ UNCHANGED << respVars, xlatVars, fixedVars, qryVars, lockVars, sseVars, cfgVars, ringVars >>

\* dispatch: from entry up to the await of client.chat_completions.
Dispatch ==
  /\ pc = "dispatch"
  /\ config2' = live
  /\ LET cfg == Cfg(live)
     IN  IF target_tier.backend \notin DOMAIN cfg.backends
           THEN /\ pc' = "done"
                /\ result' = Err("backend not in config")
                /\ calls' = calls
         ELSE IF ~BackendClientNew(cfg.backends[target_tier.backend])
           THEN /\ pc' = "done"
                /\ result' = Err("Anthropic backend requires an API key")
                /\ calls' = calls
         ELSE   /\ pc' = "dispatch_call"
                /\ result' = result
                /\ calls' = Append(calls, Call(0, target_tier,
                                               cfg.backends[target_tier.backend],
                                               rewrite_body(target_tier, stream)))
  /\ UNCHANGED << respVars, xlatVars, fixedVars, qryVars, lockVars, sseVars, cfgVars, ringVars, reqNo, stream, profile_name, model_hint,
                  config, profile, target_tier, tier_idx, max_idx, pushes >>

\* dispatch resumes with the upstream's answer; on Ok route enriches the
\* entry and pushes it, on Err the `?`s return the error to the caller.
DispatchReturn(o) ==
  /\ pc = "dispatch_call"
  /\ pc' = "done"
  /\ calls' = SetOutcome(calls, o)
  /\ IF o.kind = "err"
       THEN /\ result' = Err("upstream error")
            /\ UNCHANGED << entries, pushes, accepted >>
       ELSE LET entry == Enrich(TrafficEntry(reqNo, target_tier.name, target_tier.backend, TRUE),
                                profile_name, model_hint, profile, reqNo)
            IN  /\ result' = Ok(o.response, entry)
                /\ pushes' = Append(pushes, entry)
                /\ entries' = Push(entries, capacity, guard = "free", entry)
                /\ accepted' = Accept(accepted, guard = "free", entry)
  /\ UNCHANGED << respVars, xlatVars, fixedVars, qryVars, lockVars, sseVars, cfgVars, capacity, guard, health, reqNo, stream, profile_name, model_hint,
                  config, profile, target_tier, config2, tier_idx, max_idx >>

\* The ceiling with max_auto_tier ignored: always the last index.
max_idx_of_last(tiers, prof) == Len(tiers) - 1

\* escalate, lines 235-239: position(max_auto_tier).unwrap_or(len - 1).
max_idx_of(tiers, prof) ==
  UnwrapOr(Position(tiers, prof.max_auto_tier), Len(tiers) - 1)

\* An escalate that starts its walk at the tier route resolved.
Escalate_from_target ==
  /\ pc = "escalate"
  /\ config2' = live
  /\ LET cfg == Cfg(live)
     IN  IF Len(cfg.tiers) = 0
           THEN /\ pc' = "done"
                /\ result' = Panic("escalate: empty tier list")
                /\ max_idx' = max_idx
                /\ tier_idx' = 0
           ELSE /\ pc' = "esc_loop"
                /\ result' = result
                /\ max_idx' = max_idx_of(cfg.tiers, profile)
                /\ tier_idx' = UnwrapOr(Position(cfg.tiers, target_tier.name), 0)
  /\ UNCHANGED << respVars, xlatVars, fixedVars, qryVars, lockVars, sseVars, cfgVars, ringVars, reqNo, stream, profile_name, model_hint,
                  config, profile, target_tier, calls, pushes >>

\* escalate: from entry up to the for loop.  With an empty tier list
\* `config.tiers.len() - 1` overflows: a debug build panics there, a release
\* build wraps to usize::MAX and panics on the slice `[..=max_idx]`.
Escalate ==
  /\ pc = "escalate"
  /\ config2' = live
  /\ tier_idx' = 0
  /\ LET cfg == Cfg(live)
     IN  IF Len(cfg.tiers) = 0
           THEN /\ pc' = "done"
                /\ result' = Panic("escalate: empty tier list")
                /\ max_idx' = max_idx
           ELSE /\ pc' = "esc_loop"
                /\ result' = result
                /\ max_idx' = max_idx_of(cfg.tiers, profile)
  /\ UNCHANGED << respVars, xlatVars, fixedVars, qryVars, lockVars, sseVars, cfgVars, ringVars, reqNo, stream, profile_name, model_hint,
                  config, profile, target_tier, calls, pushes >>

\* The accepted entry marked whatever the candidate's index.
EscalateEntry_always_marked(id, tier, idx) ==
  mark_escalated(TrafficEntry(id, tier.name, tier.backend, TRUE))

\* escalate: the entry built when a candidate's response is accepted.
EscalateEntry(id, tier, idx) ==
  LET entry == TrafficEntry(id, tier.name, tier.backend, TRUE)
  IN  IF idx > 0 THEN mark_escalated(entry) ELSE entry

\* escalate: the head of one loop iteration, up to the await of
\* client.chat_completions, or the bail! after the last candidate.
EscalateNext ==
  /\ pc = "esc_loop"
  /\ LET cfg  == Cfg(config2)
     IN  IF tier_idx > max_idx
           THEN /\ pc' = "done"
                /\ result' = Err("all tiers exhausted without a sufficient response")
                /\ UNCHANGED << tier_idx, calls >>
         ELSE LET tier == At(cfg.tiers, tier_idx)
              IN  IF tier.backend \notin DOMAIN cfg.backends
                    THEN /\ tier_idx' = tier_idx + 1
                         /\ UNCHANGED << pc, result, calls >>
                  ELSE IF ~BackendClientNew(cfg.backends[tier.backend])
                    THEN /\ tier_idx' = tier_idx + 1
                         /\ UNCHANGED << pc, result, calls >>
                  ELSE   /\ pc' = "esc_call"
                         /\ calls' = Append(calls, Call(tier_idx, tier,
                                                        cfg.backends[tier.backend],
                                                        rewrite_body(tier, stream)))
                         /\ UNCHANGED << tier_idx, result >>
  /\ UNCHANGED << respVars, xlatVars, fixedVars, qryVars, lockVars, sseVars, cfgVars, ringVars, reqNo, stream, profile_name, model_hint,
                  config, profile, target_tier, config2, max_idx, pushes >>

\* An escalate that tries the same candidate again after a failed or
\* insufficient answer.
EscalateReturn_retry(o) ==
  /\ pc = "esc_call"
  /\ calls' = SetOutcome(calls, o)
  /\ pc' = IF o.kind = "ok" /\ is_sufficient(o.response) THEN "done" ELSE "esc_loop"
  /\ result' = IF o.kind = "ok" /\ is_sufficient(o.response)
                 THEN Ok(o.response, NoEntry) ELSE result
  /\ UNCHANGED << respVars, xlatVars, fixedVars, qryVars, lockVars, sseVars, cfgVars, ringVars,
                  reqNo, stream, profile_name, model_hint, config, profile,
                  target_tier, config2, tier_idx, max_idx, pushes >>

\* escalate resumes with the upstream's answer: accept a sufficient
\* response (route then enriches and pushes the entry), else go on.
EscalateReturn(o) ==
  /\ pc = "esc_call"
  /\ calls' = SetOutcome(calls, o)
  /\ IF o.kind = "ok" /\ is_sufficient(o.response)
       THEN LET tier  == At(Cfg(config2).tiers, tier_idx)
                entry == Enrich(EscalateEntry(reqNo, tier, tier_idx),
                                profile_name, model_hint, profile, reqNo)
            IN  /\ pc' = "done"
                /\ result' = Ok(o.response, entry)
                /\ pushes' = Append(pushes, entry)
                /\ entries' = Push(entries, capacity, guard = "free", entry)
                /\ accepted' = Accept(accepted, guard = "free", entry)
                /\ tier_idx' = tier_idx
       ELSE /\ pc' = "esc_loop"
            /\ tier_idx' = tier_idx + 1
            /\ UNCHANGED << result, pushes, entries, accepted >>
  /\ UNCHANGED << respVars, xlatVars, fixedVars, qryVars, lockVars, sseVars, cfgVars, capacity, guard, health, reqNo, stream, profile_name, model_hint,
                  config, profile, target_tier, config2, max_idx >>

\* ----------------------------------------------------------- route_stream
\* The upstream accepted the streaming call: the SseStream is open.
CallOpened     == [kind |-> "opened", response |-> NoResponse]
StreamOutcomes == {CallErr, CallOpened}

\* One upstream chat_completions_stream call, as issued.
StreamCall(tier, desc, body) ==
  [Call(0, tier, desc, body) EXCEPT !.method = "chat_completions_stream"]

\* Ok((stream_response, entry))
OkStream(entry) == [kind |-> "stream", msg |-> "", response |-> NoResponse, entry |-> entry]

\* route_stream, lines 341-350: the entry of a streaming request.
StreamEntry(id, tier, pname, hint) ==
  [ with_routing_mode(
      with_requested_model(
        with_profile(TrafficEntry(id, tier.name, tier.backend, TRUE), pname), hint),
      "stream")
    EXCEPT !.id = id ]

\* route_stream: from entry up to the await of chat_completions_stream.
\* One config read serves the whole function.
RouteStream(pn, bm) ==
  /\ pc \in {"idle", "done"}
  /\ reqNo' = reqNo + 1
  /\ stream' = TRUE
  /\ profile_name' = UnwrapOr(pn, "default")
  /\ config' = live
  /\ config2' = live
  /\ model_hint' = model_hint_of(bm)
  /\ pushes' = << >>
  /\ tier_idx' = 0
  /\ max_idx' = 0
  /\ LET cfg      == Cfg(live)
         prof     == profile_of(cfg, profile_name')
         resolved == resolve_tier(cfg, model_hint')
         target   == IF IsSome(resolved) THEN resolved
                     ELSE FindTier(cfg.tiers, Unwrap(prof).classifier)
     IN  IF prof = None
           THEN /\ pc' = "done"
                /\ result' = Err("no matching profile and no default profile configured")
                /\ profile' = NoProfile
                /\ target_tier' = NoTier
                /\ calls' = << >>
         ELSE IF target = None
           THEN /\ pc' = "done"
                /\ result' = Err("classifier tier not found")
                /\ profile' = Unwrap(prof)
                /\ target_tier' = NoTier
                /\ calls' = << >>
         ELSE IF Unwrap(target).backend \notin DOMAIN cfg.backends
           THEN /\ pc' = "done"
                /\ result' = Err("backend not in config")
                /\ profile' = Unwrap(prof)
                /\ target_tier' = Unwrap(target)
                /\ calls' = << >>
         ELSE IF ~BackendClientNew(cfg.backends[Unwrap(target).backend])
           THEN /\ pc' = "done"
                /\ result' = Err("Anthropic backend requires an API key")
                /\ profile' = Unwrap(prof)
                /\ target_tier' = Unwrap(target)
                /\ calls' = << >>
         ELSE   /\ pc' = "stream_call"
                /\ result' = NoResult
                /\ profile' = Unwrap(prof)
                /\ target_tier' = Unwrap(target)
                /\ calls' = << StreamCall(Unwrap(target),
                                          cfg.backends[Unwrap(target).backend],
                                          rewrite_body(Unwrap(target), TRUE)) >>
  /\ UNCHANGED << respVars, xlatVars, fixedVars, qryVars, lockVars, sseVars, cfgVars, ringVars >>

\* route_stream resumes once the upstream response head arrived (or the
\* call failed): on Ok the entry is built and pushed.
RouteStreamReturn(o) ==
  /\ pc = "stream_call"
  /\ pc' = "done"
  /\ calls' = SetOutcome(calls, o)
  /\ IF o.kind = "err"
       THEN /\ result' = Err("upstream error")
            /\ UNCHANGED << entries, pushes, accepted >>
       ELSE LET entry == StreamEntry(reqNo, target_tier, profile_name, model_hint)
            IN  /\ result' = OkStream(entry)
                /\ pushes' = Append(pushes, entry)
                /\ entries' = Push(entries, capacity, guard = "free", entry)
                /\ accepted' = Accept(accepted, guard = "free", entry)
  /\ UNCHANGED << respVars, xlatVars, fixedVars, qryVars, lockVars, sseVars, cfgVars, capacity, guard, health, reqNo, stream, profile_name, model_hint,
                  config, profile, target_tier, config2, tier_idx, max_idx >>

\* ------------------------------------------- the streaming reader task
CHANNEL_CAPACITY == 32

\* byte_stream.next() yields Some(Ok(bytes)): the next k bytes, decoded and
\* pushed onto buf.
ReadChunk(k) ==
  /\ rpc = "read"
  /\ k \in 1..Len(upstream)
  /\ buf' = buf \o from_utf8_lossy(SubSeq(upstream, 1, k))
  /\ upstream' = SubSeq(upstream, k + 1, Len(upstream))
  /\ consumed' = consumed \o SubSeq(upstream, 1, k)
  /\ rpc' = "lines"
  /\ UNCHANGED << ended, event_type, model, out, chan, dropped, received, sent, origin, lines >>
  /\ UNCHANGED << cfgVars, ringVars, reqVars, lockVars, fixedVars, qryVars, xlatVars, respVars >>

\* byte_stream.next() yields Some(Err(e)): the transport failed.
ReadErr ==
  /\ rpc = "read"
  /\ rpc' = "send_err"
  /\ ended' = "failed"
  /\ UNCHANGED << upstream, consumed, buf, event_type, model, out, chan, dropped, received,
                  sent, origin, lines >>
  /\ UNCHANGED << cfgVars, ringVars, reqVars, lockVars, fixedVars, qryVars, xlatVars, respVars >>

\* byte_stream.next() yields None: the upstream closed the stream.
ReadEnd ==
  /\ rpc = "read"
  /\ upstream = << >>
  /\ rpc' = "send_done"
  /\ ended' = "closed"
  /\ UNCHANGED << upstream, consumed, buf, event_type, model, out, chan, dropped, received,
                  sent, origin, lines >>
  /\ UNCHANGED << cfgVars, ringVars, reqVars, lockVars, fixedVars, qryVars, xlatVars, respVars >>

\* One pass of the inner loop: without a newline in buf go back to reading,
\* else take the line off buf and handle it, up to the await of tx.send.
ProcessLine ==
  /\ rpc = "lines"
  /\ LET pos == FindNewline(buf)
     IN  IF pos = 0
           THEN /\ rpc' = "read"
                /\ UNCHANGED << buf, event_type, model, out, lines >>
         ELSE LET line == trim_end_cr(SubSeq(buf, 1, pos - 1))
              IN  /\ buf' = SubSeq(buf, pos + 1, Len(buf))
                  /\ lines' = Append(lines, line)
                  /\ IF line = << >>
                       THEN /\ event_type' = << >>
                            /\ UNCHANGED << rpc, model, out >>
                     ELSE IF line[1] = "event: "
                       THEN /\ event_type' = Tail(line)
                            /\ UNCHANGED << rpc, model, out >>
                     ELSE IF line[1] = "data: "
                       THEN LET r == translate_sse_event(event_type, Tail(line), model)
                            IN  /\ model' = r.model
                                /\ IF IsSome(r.out)
                                     THEN rpc' = "send" /\ out' = Unwrap(r.out)
                                     ELSE UNCHANGED << rpc, out >>
                                /\ UNCHANGED event_type
                     ELSE UNCHANGED << rpc, event_type, model, out >>
  /\ UNCHANGED << upstream, consumed, ended, chan, dropped, received, sent, origin >>
  /\ UNCHANGED << cfgVars, ringVars, reqVars, lockVars, fixedVars, qryVars, xlatVars, respVars >>

\* The frame's send with its result ignored: the loop goes on either way.
SendFrame_result_ignored ==
  /\ rpc = "send"
  /\ rpc' = "lines"
  /\ IF dropped
       THEN UNCHANGED << chan, sent, origin >>
       ELSE /\ Len(chan) < CHANNEL_CAPACITY
            /\ chan' = Enqueue(chan, OkItem(out))
            /\ sent' = Append(sent, OkItem(out))
            /\ origin' = Append(origin, Len(lines))
  /\ UNCHANGED << upstream, consumed, ended, buf, event_type, model, out, dropped,
                  received, lines >>
  /\ UNCHANGED << cfgVars, ringVars, reqVars, lockVars, fixedVars, qryVars, xlatVars, respVars >>

\* A send on an unbounded channel: the frame is queued whatever the queue holds.
SendFrame_unbounded ==
  /\ rpc = "send"
  /\ IF dropped
       THEN /\ rpc' = "terminated"
            /\ UNCHANGED << chan, sent, origin >>
       ELSE /\ chan' = Enqueue(chan, OkItem(out))
            /\ sent' = Append(sent, OkItem(out))
            /\ origin' = Append(origin, Len(lines))
            /\ rpc' = "lines"
  /\ UNCHANGED << upstream, consumed, ended, buf, event_type, model, out, dropped, received, lines >>
  /\ UNCHANGED << cfgVars, ringVars, reqVars, lockVars, fixedVars, qryVars, xlatVars, respVars >>

\* line 189: tx.send(Ok(frame)).await.  The send fails at once when the
\* receiver is gone, and the task returns; else the frame is queued as soon
\* as the channel has room and the inner loop goes on.
SendFrame ==
  /\ rpc = "send"
  /\ IF dropped
       THEN /\ rpc' = "terminated"
            /\ UNCHANGED << chan, sent, origin >>
       ELSE /\ Len(chan) < CHANNEL_CAPACITY
            /\ chan' = Enqueue(chan, OkItem(out))
            /\ sent' = Append(sent, OkItem(out))
            /\ origin' = Append(origin, Len(lines))
            /\ rpc' = "lines"
  /\ UNCHANGED << upstream, consumed, ended, buf, event_type, model, out, dropped, received, lines >>
  /\ UNCHANGED << cfgVars, ringVars, reqVars, lockVars, fixedVars, qryVars, xlatVars, respVars >>

\* lines 169-170: the transport error is sent, whatever the send's result
\* the task returns.
SendErr ==
  /\ rpc = "send_err"
  /\ rpc' = "terminated"
  /\ IF dropped
       THEN UNCHANGED << chan, sent, origin >>
       ELSE /\ Len(chan) < CHANNEL_CAPACITY
            /\ chan' = Enqueue(chan, ErrItem)
            /\ sent' = Append(sent, ErrItem)
            /\ origin' = Append(origin, Len(lines))
  /\ UNCHANGED << upstream, consumed, ended, buf, event_type, model, out, dropped, received, lines >>
  /\ UNCHANGED << cfgVars, ringVars, reqVars, lockVars, fixedVars, qryVars, xlatVars, respVars >>

\* The task ending without the final frame.
SendDone_omitted ==
  /\ rpc = "send_done"
  /\ rpc' = "terminated"
  /\ UNCHANGED << upstream, consumed, ended, buf, event_type, model, out, chan, dropped,
                  received, sent, origin, lines >>
  /\ UNCHANGED << cfgVars, ringVars, reqVars, lockVars, fixedVars, qryVars, xlatVars, respVars >>

\* line 200: the final frame is sent, whatever the send's result the task
\* ends.
SendDone ==
  /\ rpc = "send_done"
  /\ rpc' = "terminated"
  /\ IF dropped
       THEN UNCHANGED << chan, sent, origin >>
       ELSE /\ Len(chan) < CHANNEL_CAPACITY
            /\ chan' = Enqueue(chan, OkItem(DoneFrame))
            /\ sent' = Append(sent, OkItem(DoneFrame))
            /\ origin' = Append(origin, Len(lines))
  /\ UNCHANGED << upstream, consumed, ended, buf, event_type, model, out, dropped, received, lines >>
  /\ UNCHANGED << cfgVars, ringVars, reqVars, lockVars, fixedVars, qryVars, xlatVars, respVars >>

\* The client polls the returned stream: rx.poll_recv yields the head.
ClientRecv ==
  /\ ~dropped
  /\ chan # << >>
  /\ received' = Append(received, Head(chan))
  /\ chan' = Tail(chan)
  /\ UNCHANGED << upstream, consumed, ended, rpc, buf, event_type, model, out, dropped, sent, origin, lines >>
  /\ UNCHANGED << cfgVars, ringVars, reqVars, lockVars, fixedVars, qryVars, xlatVars, respVars >>

\* The client disconnects: the returned stream, and rx with it, is dropped.
ClientDrop ==
  /\ ~dropped
  /\ dropped' = TRUE
  /\ chan' = << >>
  /\ UNCHANGED << upstream, consumed, ended, rpc, buf, event_type, model, out, received, sent, origin, lines >>
  /\ UNCHANGED << cfgVars, ringVars, reqVars, lockVars, fixedVars, qryVars, xlatVars, respVars >>

\* ------------------------------------------------------- the config lock
\* RouterState::config and RouterState::replace_config, step by step on the
\* RwLock, for one reader thread and one writer thread.

\* A config() call begins.
ConfigCall ==
  /\ snap_pc = "idle"
  /\ snap_pc' = "waiting"
  /\ snap_floor' = Len(installs)
  /\ UNCHANGED << cfg_lock, installs, snap, swap_pc, swap_new >>
  /\ UNCHANGED << cfgVars, ringVars, reqVars, sseVars, fixedVars, qryVars, xlatVars, respVars >>

\* config_lock.read(): granted when no writer holds the lock.
ConfigLock ==
  /\ snap_pc = "waiting"
  /\ cfg_lock = "free"
  /\ cfg_lock' = "read"
  /\ snap_pc' = "locked"
  /\ UNCHANGED << installs, snap_floor, snap, swap_pc, swap_new >>
  /\ UNCHANGED << cfgVars, ringVars, reqVars, sseVars, fixedVars, qryVars, xlatVars, respVars >>

\* A config() that hands out the Arc it returned before, when it has one.
ConfigClone_cached ==
  /\ snap_pc = "locked"
  /\ snap' = IF snap = NoSnap THEN [install |-> Len(installs), cfg |-> live] ELSE snap
  /\ cfg_lock' = "free"
  /\ snap_pc' = "idle"
  /\ UNCHANGED << installs, snap_floor, swap_pc, swap_new >>
  /\ UNCHANGED << cfgVars, ringVars, reqVars, sseVars, fixedVars, qryVars, xlatVars, respVars >>

\* .clone() under the read guard, the guard dropped, the Arc returned.
ConfigClone ==
  /\ snap_pc = "locked"
  /\ snap' = [install |-> Len(installs), cfg |-> live]
  /\ cfg_lock' = "free"
  /\ snap_pc' = "idle"
  /\ UNCHANGED << installs, snap_floor, swap_pc, swap_new >>
  /\ UNCHANGED << cfgVars, ringVars, reqVars, sseVars, fixedVars, qryVars, xlatVars, respVars >>

\* A replace_config(new) call begins.
ReplaceCall(new) ==
  /\ swap_pc = "idle"
  /\ swap_pc' = "waiting"
  /\ swap_new' = new
  /\ UNCHANGED << cfg_lock, installs, snap_pc, snap_floor, snap >>
  /\ UNCHANGED << cfgVars, ringVars, reqVars, sseVars, fixedVars, qryVars, xlatVars, respVars >>

\* config_lock.write(): granted when nobody holds the lock.
ReplaceLock ==
  /\ swap_pc = "waiting"
  /\ cfg_lock = "free"
  /\ cfg_lock' = "write"
  /\ swap_pc' = "locked"
  /\ UNCHANGED << installs, snap_pc, snap_floor, snap, swap_new >>
  /\ UNCHANGED << cfgVars, ringVars, reqVars, sseVars, fixedVars, qryVars, xlatVars, respVars >>

\* *guard = new, the guard dropped, replace_config returns.
ReplaceStore ==
  /\ swap_pc = "locked"
  /\ live' = swap_new
  /\ installs' = Append(installs, swap_new)
  /\ cfg_lock' = "free"
  /\ swap_pc' = "idle"
  /\ UNCHANGED << snap_pc, snap_floor, snap, swap_new >>
  /\ UNCHANGED << file, mtime, last_mtime, wpc, edits, lastReload >>
  /\ UNCHANGED << ringVars, reqVars, sseVars, fixedVars, qryVars, xlatVars, respVars >>

\* ------------------------------------------------------ the translation
\* AnthropicAdapter::chat_completions, line 76: the request is translated
\* before it is posted.
Translate ==
  /\ translated = NotTranslated
  /\ translated' = to_anthropic(request)
  /\ UNCHANGED request
  /\ UNCHANGED << cfgVars, ringVars, reqVars, sseVars, lockVars, fixedVars, qryVars, respVars >>

\* AnthropicAdapter::chat_completions, line 97: the upstream's body is
\* translated back.
TranslateResponse ==
  /\ completion = NotCompleted
  /\ completion' = from_anthropic(resp)
  /\ UNCHANGED resp
  /\ UNCHANGED << cfgVars, ringVars, reqVars, sseVars, lockVars, fixedVars, qryVars, xlatVars >>

\* ------------------------------------------------- the ring on its own
\* Any producer calls TrafficLog::push(entry).
RingEntries(id) == {TrafficEntry(id, "fast", b, ok) : b \in {"ollama", "cloud"}, ok \in BOOLEAN}
RingPush(entry) ==
  /\ entries' = Push(entries, capacity, guard = "free", entry)
  /\ accepted' = Accept(accepted, guard = "free", entry)
  /\ UNCHANGED << capacity, guard, health, cfgVars, reqVars, sseVars, lockVars, fixedVars, qryVars, xlatVars, respVars >>

\* GET /admin/backends/health, lines 139-148: the traffic-window part.
BackendsHealth ==
  /\ guard = "free"
  /\ LET cfg == Cfg(live)
         w   == health_window(cfg)
         t   == health_threshold(cfg)
     IN  health' = [ window |-> w, pct |-> t,
                     report |-> IF w > 0 THEN backend_health(entries, w, t) ELSE NoMap ]
  /\ UNCHANGED << entries, capacity, guard, accepted, cfgVars, reqVars, sseVars, lockVars, fixedVars, qryVars, xlatVars, respVars >>

\* backend_health applied to the ring with any window and threshold.
Windows    == {1, 2, 3, 4, 10}
Thresholds == {0, 33, 50, 70, 100}
HealthQuery(w, t) ==
  /\ guard = "free"
  /\ health' = [window |-> w, pct |-> t, report |-> backend_health(entries, w, t)]
  /\ UNCHANGED << entries, capacity, guard, accepted, cfgVars, reqVars, sseVars, lockVars, fixedVars, qryVars, xlatVars, respVars >>

\* ------------------------------------------------------------------ spec
\* The router: request tasks against reloads among configs that load.
RouterContents == {"base", "alt", "empty"}

Next ==
  \/ \E c \in RouterContents : edits < MaxEdits /\ EditFile(c)
  \/ AdminReload
  \/ ReaderLock
  \/ ReaderUnlock
  \/ \E pn \in ProfileNames, bm \in BodyModels, strm \in Streams :
        reqNo < MaxRequests /\ Route(pn, bm, strm)
  \/ Dispatch
  \/ \E o \in Outcomes : DispatchReturn(o)
  \/ Escalate
  \/ EscalateNext
  \/ \E o \in Outcomes : EscalateReturn(o)

InitRouter ==
  /\ Init
  /\ file \in RouterContents

Spec == InitRouter /\ [][Next]_vars

\* Hot reload: the file changes in every way, the admin endpoint and the
\* watcher reload it.
NextReload ==
  \/ \E c \in FileContents : edits < MaxEdits /\ EditFile(c)
  \/ AdminReload
  \/ WatcherTick

SpecReload == Init /\ [][NextReload]_vars

\* The process from main's Config::load on: the watcher task is spawned but
\* has not yet run, and the file can be edited at any moment.
InitWatch ==
  /\ file \in StartupContents
  /\ live = Unwrap(Load(file))
  /\ mtime = Some(0)
  /\ last_mtime = None
  /\ wpc = "start"
  /\ edits = 0
  /\ lastReload = "none"
  /\ InitRequest /\ InitTraffic /\ InitNoStream /\ InitLock /\ InitFixed /\ InitNoQuery
  /\ InitNoTranslate /\ InitNoResponse

NextWatch ==
  \/ \E c \in FileContents : edits < MaxEdits /\ EditFile(c)
  \/ AdminReload
  \/ WatcherStart
  \/ WatcherTick

SpecWatch == InitWatch /\ [][NextWatch]_vars

\* The watcher task is scheduled and its interval keeps ticking; nobody is
\* obliged to call POST /admin/reload or to edit the file.
FairWatch == SpecWatch /\ WF_vars(WatcherStart) /\ WF_vars(WatcherTick)

\* The ring on its own, for every capacity up to MaxCapacity.
InitRing ==
  /\ InitConfig /\ file = "base"
  /\ InitRequest
  /\ entries = << >>
  /\ capacity \in 0..MaxCapacity
  /\ guard = "free"
  /\ accepted = << >>
  /\ health = NoHealth
  /\ InitNoStream
  /\ InitLock
  /\ InitFixed /\ InitNoQuery
  /\ InitNoTranslate
  /\ InitNoResponse

NextRing ==
  \/ \E e \in RingEntries(Len(accepted) + 1) : Len(accepted) < MaxPushes /\ RingPush(e)
  \/ ReaderLock
  \/ ReaderUnlock

SpecRing == InitRing /\ [][NextRing]_vars

\* GET /admin/traffic against producers: one handler call with a small, an
\* exact and the default limit, while pushes arrive at any moment.
Limits == {1, MaxCapacity, 100}

NextTraffic ==
  \/ \E e \in RingEntries(Len(accepted) + 1) : Len(accepted) < MaxPushes /\ RingPush(e)
  \/ \E l \in Limits : TrafficCall(l)
  \/ RecentLock
  \/ RecentReturn
  \/ StatsLock
  \/ StatsReturn

SpecTraffic == InitRing /\ [][NextTraffic]_vars


\* The health gate's inputs: the gate config from startup, default requests.
InitGate ==
  /\ Init
  /\ file = "gate"

NextGate ==
  \/ reqNo < MaxGateRequests /\ Route(None, None, FALSE)
  \/ Escalate
  \/ EscalateNext
  \/ \E o \in Outcomes : EscalateReturn(o)

SpecGate == InitGate /\ [][NextGate]_vars

\* backend_health over every ring of up to MaxHealthLen entries.
HealthEntries == {TrafficEntry(0, "fast", b, ok) : b \in {"ollama", "cloud"}, ok \in BOOLEAN}
HealthRings == UNION {[1..n -> HealthEntries] : n \in 0..MaxHealthLen}

InitHealth ==
  /\ InitConfig /\ file \in {"base", "gate"}
  /\ InitRequest
  /\ entries \in HealthRings
  /\ capacity = MaxHealthLen
  /\ guard = "free"
  /\ accepted = entries
  /\ health = NoHealth
  /\ InitNoStream
  /\ InitLock
  /\ InitFixed /\ InitNoQuery
  /\ InitNoTranslate
  /\ InitNoResponse

NextHealth ==
  \/ \E w \in Windows, t \in Thresholds : HealthQuery(w, t)
  \/ BackendsHealth

SpecHealth == InitHealth /\ [][NextHealth]_vars

\* The router with the stream flag: route with either value of `stream`,
\* and route_stream, against a config that does not change.
NextStream ==
  \/ \E pn \in ProfileNames, bm \in BodyModels, strm \in BOOLEAN :
        reqNo < MaxRequests /\ Route(pn, bm, strm)
  \/ \E pn \in ProfileNames, bm \in BodyModels :
        reqNo < MaxRequests /\ RouteStream(pn, bm)
  \/ \E o \in StreamOutcomes : RouteStreamReturn(o)
  \/ Dispatch
  \/ \E o \in Outcomes : DispatchReturn(o)
  \/ Escalate
  \/ EscalateNext
  \/ \E o \in Outcomes : EscalateReturn(o)

SpecStream == InitRouter /\ [][NextStream]_vars

\* route on its own: every config a process can start with, requests under
\* known and unknown profile names and with model strings of every kind,
\* and no reload.
RouteProfileNames == {None, Some("esc"), Some("nosuch")}
RouteBodyModels   == {None, Some("mid"), Some("econ"), Some("zzz")}

\* The upstream's answers, with one whose text is seven three-byte characters.
RouteOutcomes == Outcomes \cup {CallOk([content |-> Some(Utf8Content(7, 21, FALSE))])}

NextRoute ==
  \/ \E pn \in RouteProfileNames, bm \in RouteBodyModels :
        reqNo < MaxRequests /\ Route(pn, bm, FALSE)
  \/ Dispatch
  \/ \E o \in RouteOutcomes : DispatchReturn(o)
  \/ Escalate
  \/ EscalateNext
  \/ \E o \in RouteOutcomes : EscalateReturn(o)
  \/ ReaderLock
  \/ ReaderUnlock

SpecRoute == Init /\ [][NextRoute]_vars

\* to_anthropic on its own: requests with every sequence of up to
\* MaxMessages messages, and requests with and without the other fields.
Messages ==
  { Msg("system", Str("A")), Msg("system", Str("B")), Msg("system", Parts("P")),
    Msg("user", Str("hi")), Msg("assistant", Str("yo")) }
MessageLists == UNION {[1..n -> Messages] : n \in 0..MaxMessages}
Requests ==
  { [model |-> Some("m"), max_tokens |-> None, messages |-> Some(ms),
     temperature |-> None, stop |-> None] : ms \in MessageLists }
  \cup
  { [model |-> mdl, max_tokens |-> mt, messages |-> ms, temperature |-> tp, stop |-> st] :
      mdl \in {None, Some("m")}, mt \in {None, Some(64)},
      ms \in {None, Some(<< Msg("system", Str("A")), Msg("user", Str("hi")) >>)},
      tp \in {None, Some(1)}, st \in {None, Some("END")} }

InitTranslate ==
  /\ InitConfig /\ file = "base"
  /\ InitRequest
  /\ InitTraffic
  /\ InitNoStream
  /\ InitLock
  /\ InitFixed /\ InitNoQuery
  /\ request \in Requests
  /\ translated = NotTranslated
  /\ InitNoResponse

NextTranslate == Translate

SpecTranslate == InitTranslate /\ [][NextTranslate]_vars

\* from_anthropic on its own: responses with every content array of up to
\* MaxBlocks blocks and every stop reason, and responses with and without
\* the other fields.
Blocks ==
  { Block("tool_use", None), Block("text", Some("first answer")),
    Block("text", Some("other answer")), Block("text", None) }
BlockLists == UNION {[1..n -> Blocks] : n \in 0..MaxBlocks}
StopReasons == {None, Some("end_turn"), Some("max_tokens"), Some("tool_use")}
AnthropicResponses ==
  { [id |-> Some("msg_1"), model |-> Some("claude"), content |-> Some(bs), stop_reason |-> sr,
     input_tokens |-> Some(3), output_tokens |-> Some(4)] :
      bs \in BlockLists, sr \in StopReasons }
  \cup
  { [id |-> i, model |-> m, content |-> c, stop_reason |-> Some("end_turn"),
     input_tokens |-> it, output_tokens |-> None] :
      i \in {None, Some("msg_1")}, m \in {None, Some("claude")},
      c \in {None, Some(<< Block("text", Some("first answer")) >>)},
      it \in {None, Some(3)} }

InitResponse ==
  /\ InitConfig /\ file = "base"
  /\ InitRequest
  /\ InitTraffic
  /\ InitNoStream
  /\ InitLock
  /\ InitFixed /\ InitNoQuery
  /\ InitNoTranslate
  /\ resp \in AnthropicResponses
  /\ completion = NotCompleted

NextResponse == TranslateResponse

SpecResponse == InitResponse /\ [][NextResponse]_vars

\* The byte streams the upstream sends.
Upstreams ==
  { << "event: ", "message_start", LF, "data: ", "m", "1", LF, LF,
       "event: ", "content_block_delta", LF, "data: ", "a", "L", "C", LF, LF,
       "event: ", "message_delta", LF, "data: ", "end_turn", LF, LF >>,
    << "event: ", "ping", CR, LF, "data: ", "{}", CR, LF, CR, LF,
       "data: ", "a", LF,
       "event: ", "content_block_delta", CR, LF, "data: ", "!", LF, "data: ", "L", "C", CR, LF,
       "x", LF, "event: ", "message_delta", LF, "data: ", "{}", LF, "data: ", "a" >>,
    << LF, "event: ", "message_start", LF, "data: ", "!", LF >>,
    << >> }

\* One streaming call of the Messages-style adapter: the reader task, the
\* channel and the client, for every chunking of the upstream bytes.
InitSse ==
  /\ InitConfig /\ file = "base"
  /\ InitRequest
  /\ InitTraffic
  /\ \E bytes \in Upstreams : InitReader(bytes)
  /\ InitLock
  /\ InitFixed /\ InitNoQuery
  /\ InitNoTranslate
  /\ InitNoResponse

NextSse ==
  \/ \E k \in 1..Len(upstream) : ReadChunk(k)
  \/ ReadErr
  \/ ReadEnd
  \/ ProcessLine
  \/ SendFrame
  \/ SendErr
  \/ SendDone
  \/ ClientRecv
  \/ ClientDrop

SpecSse == InitSse /\ [][NextSse]_vars

\* A long answer: one content_block_delta event with MaxFrames data lines,
\* each of which translates to a frame - more frames than the channel holds.
MaxFrames == 34

RECURSIVE DataLines(_)
DataLines(n) == IF n = 0 THEN << >> ELSE << "data: ", "a", LF >> \o DataLines(n - 1)

LongUpstream == << "event: ", "content_block_delta", LF >> \o DataLines(MaxFrames)

\* The sizes byte_stream hands the long answer over in: one line at a time,
\* or two.
ChunkSizes == {3, 6} \cap (1..Len(upstream))

\* One streaming call with the long answer and a client that consumes at
\* any pace, or not at all.
InitPressure ==
  /\ InitConfig /\ file = "base"
  /\ InitRequest
  /\ InitTraffic
  /\ InitReader(LongUpstream)
  /\ InitLock
  /\ InitFixed /\ InitNoQuery
  /\ InitNoTranslate
  /\ InitNoResponse

NextPressure ==
  \/ \E k \in ChunkSizes : ReadChunk(k)
  \/ ReadErr
  \/ ReadEnd
  \/ ProcessLine
  \/ SendFrame
  \/ SendErr
  \/ SendDone
  \/ ClientRecv
  \/ ClientDrop

SpecPressure == InitPressure /\ [][NextPressure]_vars

\* The config lock on its own: config() calls against replace_config
\* calls with any config that loads.
NextLock ==
  \/ ConfigCall
  \/ ConfigLock
  \/ ConfigClone
  \/ \E new \in StartupContents : Len(installs) <= MaxSwaps /\ ReplaceCall(new)
  \/ ReplaceLock
  \/ ReplaceStore

SpecLock == Init /\ [][NextLock]_vars


\* ================================================================ claims
\* What the claims mean by a sufficient response: a content string of at
\* least 20 characters without a refusal phrase.
SufficientResponse(r) == \E c \in r.content : c.len >= 20 /\ ~c.refusal
Succeeded(call) == call.outcome.kind = "ok" /\ SufficientResponse(call.outcome.response)

\* The tier list Escalate iterates, and whether it skips the candidate at
\* index j without calling it.
EscTiers == Cfg(config2).tiers
Skipped(j) ==
  \/ At(EscTiers, j).backend \notin DOMAIN Cfg(config2).backends
  \/ LET d == Cfg(config2).backends[At(EscTiers, j).backend]
     IN  d.provider = "anthropic" /\ (d.api_key_env = {} \/ \A v \in d.api_key_env : v \notin EnvSet)

\* C1: in Escalate mode the calls go out in increasing tier-list index from
\* index 0 on (a candidate is passed over only by a skip), and a returned
\* response is the one of the lowest-index candidate whose call succeeded
\* with a sufficient response; the traffic record names that candidate's
\* tier and backend.
C1_EscalateFirstSufficient ==
  (profile.mode = "escalate" /\ pc \in {"esc_loop", "esc_call", "done"}) =>
    /\ \A i \in DOMAIN calls : \A j \in DOMAIN calls :
          i < j => calls[i].tier_idx < calls[j].tier_idx
    /\ \A i \in DOMAIN calls :
          /\ calls[i].tier_idx \in 0..(Len(EscTiers) - 1)
          /\ calls[i].tier = At(EscTiers, calls[i].tier_idx).name
          /\ \A k \in 0..(calls[i].tier_idx - 1) :
                (\E j \in DOMAIN calls : calls[j].tier_idx = k) \/ Skipped(k)
    /\ (pc = "done" /\ result.kind = "ok") =>
          /\ calls # << >>
          /\ LET last == calls[Len(calls)]
             IN  /\ Succeeded(last)
                 /\ result.response = last.outcome.response
                 /\ \A i \in 1..(Len(calls) - 1) : ~Succeeded(calls[i])
                 /\ result.entry.tier = At(EscTiers, last.tier_idx).name
                 /\ result.entry.backend = At(EscTiers, last.tier_idx).backend

\* Escalate passed a failed candidate and a skipped one and returned the
\* third candidate's response.
C1_Witness ==
  /\ pc = "done" /\ profile.mode = "escalate" /\ result.kind = "ok"
  /\ Len(calls) = 2
  /\ calls[1].tier_idx = 0 /\ ~Succeeded(calls[1])
  /\ calls[2].tier_idx = 2 /\ Skipped(1)
  /\ result.entry.tier = "econ"


DispatchReaches ==
  /\ target_tier.backend \in DOMAIN Cfg(config2).backends
  /\ LET d == Cfg(config2).backends[target_tier.backend]
     IN  d.provider = "anthropic" => \E v \in d.api_key_env : v \in EnvSet

C3_SingleSnapshot ==
  pc \in {"dispatch_call", "esc_loop", "esc_call", "done"} => config2 = config

\* The last n entries of a sequence, newest first.
LastNewestFirst(seq, n) == [i \in 1..n |-> seq[Len(seq) + 1 - i]]

\* C4: for every capacity C, after N uncontended pushes the ring holds at
\* most C records, and recent(limit) with limit >= N has length min(N, C)
\* and is the last min(N, C) pushed records, newest first.
C4_RingBound ==
  LET N == Len(accepted)
      K == IF N < capacity THEN N ELSE capacity
  IN  /\ Len(entries) <= capacity
      /\ \A limit \in N..(N + 1) :
            /\ Len(Recent(entries, limit)) = K
            /\ Recent(entries, limit) = LastNewestFirst(accepted, K)

\* C5: a route call that failed because the Dispatch call failed or
\* because Escalate ran out of candidates handed push a record with
\* success = false that carries the error message.
C5_FailureRecorded ==
  ( /\ pc = "done" /\ result.kind = "error"
    /\ \/ profile.mode = "dispatch" /\ calls # << >>
       \/ profile.mode = "escalate" )
  => \E i \in DOMAIN pushes : ~pushes[i].success /\ pushes[i].error # {}

\* The ceiling the claim gives Escalate: the index of the first tier named
\* max_auto_tier, or the last index when no tier has that name.
Ceiling ==
  IF \E j \in 0..(Len(EscTiers) - 1) : At(EscTiers, j).name = profile.max_auto_tier
    THEN CHOOSE j \in 0..(Len(EscTiers) - 1) :
           /\ At(EscTiers, j).name = profile.max_auto_tier
           /\ \A k \in 0..(j - 1) : At(EscTiers, k).name # profile.max_auto_tier
    ELSE Len(EscTiers) - 1

\* C8: Escalate calls no tier above the index of the tier named
\* max_auto_tier, or above the last index when no tier has that name.
C8_CeilingRespected ==
  (profile.mode = "escalate" /\ pc \in {"esc_loop", "esc_call", "done"}) =>
    \A i \in DOMAIN calls : calls[i].tier_idx <= Ceiling

\* Escalate ran out of candidates at a ceiling below the last tier, the
\* ceiling's tier having been called.
C8_Witness ==
  /\ pc = "done" /\ profile.mode = "escalate" /\ result.kind = "error"
  /\ Ceiling < Len(EscTiers) - 1
  /\ calls # << >> /\ calls[Len(calls)].tier_idx = Ceiling

\* The four validation rules, as the claims list them.
TierBackendsKnown(cfg) ==
  \A i \in DOMAIN cfg.tiers : cfg.tiers[i].backend \in DOMAIN cfg.backends
AliasTargetsKnown(cfg) ==
  \A a \in DOMAIN cfg.aliases : \E i \in DOMAIN cfg.tiers : cfg.tiers[i].name = cfg.aliases[a]
ClassifiersKnown(cfg) ==
  \A p \in DOMAIN cfg.profiles :
     \E i \in DOMAIN cfg.tiers : cfg.tiers[i].name = cfg.profiles[p].classifier
ClientProfilesKnown(cfg) ==
  \A i \in DOMAIN cfg.clients : cfg.clients[i].profile \in DOMAIN cfg.profiles
FourRules(cfg) ==
  /\ TierBackendsKnown(cfg) /\ AliasTargetsKnown(cfg)
  /\ ClassifiersKnown(cfg) /\ ClientProfilesKnown(cfg)

\* The file can be read, parses, and its config satisfies the four rules.
FileLoads == file \in CfgIds /\ FourRules(Cfg(file))

\* C6: a reload (POST /admin/reload or the watcher) of a file that cannot
\* be read, parsed or validated leaves the live config the snapshot it was;
\* the live config changes only to the config of a file that loaded.
C6_FailedReloadKeepsLive ==
  [][ /\ ((AdminReload \/ WatcherTick) /\ ~FileLoads) => live' = live
      /\ live' # live => (FileLoads /\ live' = file) ]_vars

\* A reload of an edited file that does not load has failed, with a
\* different config live.
C6_Witness ==
  /\ lastReload = "failed" /\ edits > 0
  /\ ~FileLoads /\ live # file

\* C7: after the startup load and any sequence of reloads the live config
\* satisfies the four validation rules.
C7_LiveConfigValid == live \in CfgIds /\ FourRules(Cfg(live))

\* A reload installed the config of an edited file.
C7_Witness ==
  /\ lastReload = "ok" /\ edits > 0
  /\ live = file /\ last_mtime = mtime

\* C9: with the health gate configured, Escalate makes no upstream call to
\* a backend that backend_health(window, threshold) reports as not healthy
\* when the candidate is considered.
C9_GateSkipsUnhealthy ==
  (pc = "esc_call" /\ IsSome(Cfg(config2).health_window)
                   /\ health_window(Cfg(config2)) > 0) =>
    LET report == backend_health(entries, health_window(Cfg(config2)),
                                 health_threshold(Cfg(config2)))
        b      == calls[Len(calls)].backend
    IN  b \in DOMAIN report => report[b].healthy

\* The positions of the `window` most recent ring records.
WindowIdx(w) == {i \in DOMAIN entries : i > Len(entries) - w}
TotalOf(w, b) == Cardinality({i \in WindowIdx(w) : entries[i].backend = b})
ErrorsOf(w, b) ==
  Cardinality({i \in WindowIdx(w) : entries[i].backend = b /\ ~entries[i].success})

\* C10: backend_health(window, threshold) reports, for each backend among
\* the `window` most recent ring records, its total and error counts over
\* those records, and healthy iff the total is below 3 or errors / total is
\* at most the threshold.
C10_BackendHealth ==
  health # NoHealth =>
    LET w == health.window
    IN  /\ DOMAIN health.report = {entries[i].backend : i \in WindowIdx(w)}
        /\ \A b \in DOMAIN health.report :
              /\ health.report[b].total = TotalOf(w, b)
              /\ health.report[b].errors = ErrorsOf(w, b)
              /\ health.report[b].healthy <=>
                    (TotalOf(w, b) < 3 \/ ErrorsOf(w, b) * 100 <= health.pct * TotalOf(w, b))

\* A report over a window shorter than the ring: a backend with three
\* samples in the window and an error rate above the threshold is reported
\* unhealthy, the older record left out of its counts.
C10_Witness ==
  /\ health # NoHealth
  /\ health.window < Len(entries)
  /\ \E b \in DOMAIN health.report :
        /\ health.report[b].total >= 3
        /\ health.report[b].errors < health.report[b].total
        /\ ~health.report[b].healthy
        /\ entries[1].backend = b

\* C11: when no candidate of Escalate answered with a sufficient response
\* (each was skipped, failed or answered insufficiently), Escalate returns
\* the exhaustion error and no candidate's response body.
C11_ExhaustionError ==
  ( /\ pc = "done" /\ profile.mode = "escalate"
    /\ \A i \in DOMAIN calls : ~Succeeded(calls[i]) )
  => /\ result.kind = "error"
     /\ result.msg = "all tiers exhausted without a sufficient response"
     /\ result.response = NoResponse /\ result.entry = NoEntry

\* C12: a traffic record has escalated = true iff Escalate produced it by
\* accepting a candidate at tier-list index > 0; the records of Dispatch,
\* of the streaming path and of Escalate accepting index 0 have
\* escalated = false.
C12_EscalatedFlag ==
  \A i \in DOMAIN pushes :
     /\ pushes[i] = result.entry
     /\ calls # << >>
     /\ pushes[i].escalated <=>
          /\ profile.mode = "escalate"
          /\ calls[Len(calls)].method = "chat_completions"
          /\ calls[Len(calls)].tier_idx > 0

\* Escalate accepted the candidate at index 2 and its record is marked.
C12_Witness ==
  /\ pc = "done" /\ profile.mode = "escalate" /\ result.kind = "ok"
  /\ calls[Len(calls)].tier_idx = 2
  /\ pushes # << >> /\ pushes[1].escalated
  /\ pushes[1].tier = "econ"

\* The tier a request's model resolves to in the snapshot read at entry:
\* the tier named by the model or by its alias, else the classifier tier.
ResolvedTier ==
  LET cfg   == Cfg(config)
      name  == IF model_hint \in DOMAIN cfg.aliases THEN cfg.aliases[model_hint]
               ELSE model_hint
      known == \E i \in DOMAIN cfg.tiers : cfg.tiers[i].name = name
      want  == IF known THEN name ELSE profile.classifier
  IN  cfg.tiers[CHOOSE i \in DOMAIN cfg.tiers :
                  /\ cfg.tiers[i].name = want
                  /\ \A k \in 1..(i - 1) : cfg.tiers[k].name # want]

\* C13: a request with stream = true never escalates, whatever the
\* profile's mode: it makes exactly one upstream call, a streaming call to
\* the resolved tier (the classifier tier on a miss) with body.stream = true
\* and body.model the tier's model.
C13_StreamNeverEscalates ==
  (stream /\ profile # NoProfile) =>
    /\ pc \notin {"escalate", "esc_loop", "esc_call"}
    /\ pc = "done" =>
         /\ Len(calls) = 1
         /\ calls[1].method = "chat_completions_stream"
         /\ calls[1].tier = ResolvedTier.name
         /\ calls[1].backend = ResolvedTier.backend
         /\ calls[1].body = [model |-> ResolvedTier.model, stream |-> TRUE]

\* What the returned stream yields: the items received and those queued.
Yielded == received \o chan

\* C14: the final item a Messages-style stream yields is the frame
\* `data: [DONE]`, exactly once and with nothing after it, however the
\* upstream stream ends.
C14_DoneIsFinal ==
  /\ \A i \in DOMAIN Yielded : Yielded[i] = OkItem(DoneFrame) => i = Len(Yielded)
  /\ (rpc = "terminated" /\ ~dropped) =>
        (Yielded # << >> /\ Yielded[Len(Yielded)] = OkItem(DoneFrame))

\* C14, amended: a [DONE] frame is yielded at most once and nothing follows
\* it; when the upstream closes the stream and the client keeps reading the
\* final item is the [DONE] frame; when reading the upstream fails the final
\* item is that error and no [DONE] frame is yielded.
C14_DoneUnlessFailed ==
  /\ \A i \in DOMAIN Yielded :
        (Yielded[i] = OkItem(DoneFrame) \/ Yielded[i].kind = "err") => i = Len(Yielded)
  /\ (rpc = "terminated" /\ ~dropped /\ ended = "closed") =>
        (Yielded # << >> /\ Yielded[Len(Yielded)] = OkItem(DoneFrame))
  /\ (rpc = "terminated" /\ ~dropped /\ ended = "failed") =>
        /\ Yielded # << >> /\ Yielded[Len(Yielded)] = ErrItem
        /\ \A i \in DOMAIN Yielded : Yielded[i] # OkItem(DoneFrame)
  /\ (rpc = "terminated" /\ ~dropped) => ended \in {"closed", "failed"}

\* The client read a whole stream of three translated frames and the
\* [DONE] frame after them.
C14_Witness ==
  /\ rpc = "terminated" /\ ~dropped /\ ended = "closed" /\ chan = << >>
  /\ Len(received) = 4
  /\ received[4] = OkItem(DoneFrame)
  /\ received[3].frame.finish_reason = Some(<< "stop" >>)

RECURSIVE FramesOfText(_, _, _)
\* The frames the translator's line handling gives for a decoded text, line
\* by line, from the event type and model name it starts with.
FramesOfText(text, et, mdl) ==
  LET pos == FindNewline(text)
  IN  IF pos = 0 THEN << >>
      ELSE LET line == trim_end_cr(SubSeq(text, 1, pos - 1))
               rest == SubSeq(text, pos + 1, Len(text))
           IN  IF line = << >> THEN FramesOfText(rest, << >>, mdl)
               ELSE IF line[1] = "event: " THEN FramesOfText(rest, Tail(line), mdl)
               ELSE IF line[1] = "data: "
                 THEN LET r == translate_sse_event(et, Tail(line), mdl)
                      IN  (IF IsSome(r.out) THEN << OkItem(Unwrap(r.out)) >> ELSE << >>)
                            \o FramesOfText(rest, et, r.model)
               ELSE FramesOfText(rest, et, mdl)

\* The frames of a byte sequence that arrives as one chunk.
FramesOfOneChunk(bytes) == FramesOfText(from_utf8_lossy(bytes), << >>, << "unknown" >>)

\* The part of a text after its last newline.
PartialLine(text) ==
  LET nl == {i \in DOMAIN text : text[i] = LF}
  IN  IF nl = {} THEN text
      ELSE SubSeq(text, (CHOOSE i \in nl : \A k \in nl : k <= i) + 1, Len(text))

\* C15: the frames emitted depend only on the concatenation of the upstream
\* bytes, not on the chunking: whenever the reader task has handled the
\* chunks read so far, the frames sent are those of the same bytes arriving
\* as one chunk, and buf holds the current incomplete line only.
C15_ChunkingIndependent ==
  (rpc = "read" /\ ~dropped) =>
    /\ sent = FramesOfOneChunk(consumed)
    /\ buf = PartialLine(from_utf8_lossy(consumed))

\* The event type in force at line k: that of the last event line before k,
\* unless an empty line came after it.
EventAt(k) ==
  LET marks == {j \in 1..(k - 1) : lines[j] = << >> \/ lines[j][1] = "event: "}
  IN  IF marks = {} THEN << >>
      ELSE LET j == CHOOSE j \in marks : \A m \in marks : m <= j
           IN  IF lines[j] = << >> THEN << >> ELSE Tail(lines[j])

\* Line k is the data line of an upstream event that maps to a frame.
MapsToFrame(k) ==
  /\ lines[k] # << >> /\ lines[k][1] = "data: "
  /\ LET data == Tail(lines[k])
         json == data # << >> /\ \A i \in DOMAIN data : data[i] # "!"
     IN  \/ EventAt(k) = << "message_start" >>
         \/ EventAt(k) = << "content_block_delta" >> /\ json /\ data # << "{}" >>
         \/ EventAt(k) = << "message_delta" >> /\ json

\* The items of sent that are translated frames.
IsFrameAt(i) == sent[i].kind = "ok" /\ sent[i] # OkItem(DoneFrame)

\* C16: while the client keeps reading, the frames reach it in the order of
\* the upstream events that produced them, none lost, duplicated or
\* reordered between the reader task and the returned stream.
C16_OrderPreserved ==
  ~dropped =>
    /\ Yielded = sent
    /\ \A i \in DOMAIN sent : \A j \in DOMAIN sent :
          (i < j /\ IsFrameAt(i)) => (IsFrameAt(j) => origin[i] < origin[j])
    /\ \A i \in DOMAIN sent : IsFrameAt(i) =>
          /\ origin[i] \in DOMAIN lines /\ MapsToFrame(origin[i])
          /\ EventAt(origin[i]) = << "content_block_delta" >> =>
                sent[i].frame.delta.content = Some(Tail(lines[origin[i]]))
          /\ EventAt(origin[i]) = << "message_start" >> =>
                sent[i].frame.delta.role = Some("assistant")
    /\ \A k \in DOMAIN lines : MapsToFrame(k) =>
          \/ \E i \in DOMAIN sent : IsFrameAt(i) /\ origin[i] = k
          \/ k = Len(lines) /\ rpc = "send"

\* The client has read the first two frames while the third waits in the
\* channel.
C16_Witness ==
  /\ ~dropped /\ Len(received) = 2 /\ Len(chan) = 1
  /\ origin = << 2, 5, 8 >>
  /\ received[2].frame.delta.content = Some(<< "a", "LC" >>)
  /\ chan[1].frame.finish_reason = Some(<< "stop" >>)

\* C17: once the client has dropped the stream, the reader task's next
\* emission fails and ends the task; from then on the task sends nothing
\* and reads nothing more from the upstream.
C17_ReaderStopsAfterDrop ==
  [][ /\ (dropped /\ rpc \in {"send", "send_err", "send_done"} /\ rpc' # rpc) =>
            (rpc' = "terminated" /\ chan' = chan /\ sent' = sent)
      /\ dropped => (sent' = sent /\ chan' = chan /\ received' = received)
      /\ rpc = "terminated" =>
            (rpc' = "terminated" /\ upstream' = upstream /\ consumed' = consumed
               /\ sent' = sent /\ buf' = buf) ]_vars

\* The client dropped the stream and the task ended on a failed send of a
\* translated frame, with upstream bytes left unread.
C17_Witness ==
  /\ dropped /\ rpc = "terminated" /\ ended = "open"
  /\ upstream # << >>
  /\ sent # << >>

\* C18: push never waits: called with the ring's guard held it returns at
\* once, the record is dropped and the ring is as it was; called with the
\* guard free it appends the record.
C18_PushNeverWaits ==
  [][ Len(pushes') = Len(pushes) + 1 =>
        /\ pc' = "done"
        /\ guard' = guard
        /\ IF guard = "free"
             THEN /\ entries' # << >>
                  /\ entries'[Len(entries')] = pushes'[Len(pushes')]
                  /\ \A i \in 1..(Len(entries') - 1) :
                        \E j \in DOMAIN entries : entries'[i] = entries[j]
             ELSE entries' = entries ]_vars

\* A request succeeded while a reader held the guard: its record was handed
\* to push and the ring is still empty.
C18_Witness ==
  /\ pc = "done" /\ result.kind = "ok"
  /\ guard = "reader"
  /\ pushes # << >> /\ entries = << >> /\ capacity > 0

\* C19: a ring constructed with capacity 0 records nothing: after any
\* pushes recent(n) is empty for every n and stats().total_requests is 0.
C19_ZeroCapacityRecordsNothing ==
  capacity = 0 =>
    /\ \A n \in 0..(MaxPushes + 1) : Recent(entries, n) = << >>
    /\ StatsTotal(entries) = 0

\* C20: config() returns one whole Arc the lock has held, never parts of two;
\* a config() call that began after a replace_config returned yields that
\* config or a later one; and a replace_config leaves the snapshots already
\* handed out as they were.
C20_AtomicSnapshot ==
  /\ [](snap # NoSnap =>
          /\ snap.install \in 1..Len(installs)
          /\ snap.cfg = installs[snap.install]
          /\ snap_pc = "idle" => snap.install >= snap_floor)
  /\ [][installs' # installs => snap' = snap]_vars

\* A config() call that overlapped a replace_config returned the new config,
\* and a still later replace_config has left that snapshot alone.
C20_Witness ==
  /\ snap_pc = "idle"
  /\ snap_floor = 1
  /\ snap.install = 2
  /\ Len(installs) = 3
  /\ snap.cfg # live

\* C21: a reload, from the admin endpoint or from the watcher, and whether
\* or not it installs anything, leaves client_map, admin_token, rate_limiter,
\* config_path, started_at and the ring's contents as they were.
C21_ReloadFrame ==
  [][(AdminReload \/ WatcherTick) =>
        /\ client_map' = client_map
        /\ admin_token' = admin_token
        /\ rate_limiter' = rate_limiter
        /\ config_path' = config_path
        /\ started_at' = started_at
        /\ entries' = entries]_vars

\* A reload installed a config from which RouterState::new would derive
\* other client keys, another admin token and another limiter, while the
\* ring held a record.
C21_Witness ==
  /\ lastReload = "ok"
  /\ entries # << >>
  /\ client_map # new_client_map(Cfg(live))
  /\ admin_token # new_admin_token(Cfg(live))
  /\ rate_limiter # new_rate_limiter(Cfg(live))

\* C22 (as stated): for every alias A -> T of the installed config,
\* resolve_tier(A) and resolve_tier(T) both return the tier named T.
C22_AliasAndTargetAgree ==
  \A a \in DOMAIN Cfg(live).aliases :
    LET t == Cfg(live).aliases[a]
    IN  /\ IsSome(resolve_tier(Cfg(live), a))
        /\ Unwrap(resolve_tier(Cfg(live), a)).name = t
        /\ resolve_tier(Cfg(live), t) = resolve_tier(Cfg(live), a)

\* C22 (amended): for every alias A -> T of the installed config,
\* resolve_tier(A) returns the tier named T, and resolve_tier(T) returns the
\* same tier whenever T is not itself an alias key; when T is an alias key,
\* resolve_tier(T) returns the tier T's own alias names.
C22_AliasResolvesToTarget ==
  \A a \in DOMAIN Cfg(live).aliases :
    LET t == Cfg(live).aliases[a]
    IN  /\ IsSome(resolve_tier(Cfg(live), a))
        /\ Unwrap(resolve_tier(Cfg(live), a)).name = t
        /\ t \notin DOMAIN Cfg(live).aliases =>
             resolve_tier(Cfg(live), t) = resolve_tier(Cfg(live), a)
        /\ t \in DOMAIN Cfg(live).aliases =>
             /\ IsSome(resolve_tier(Cfg(live), t))
             /\ Unwrap(resolve_tier(Cfg(live), t)).name = Cfg(live).aliases[t]

\* A reload installed a config with one alias whose target is a plain tier
\* name and one alias whose target is also an alias key.
C22_Witness ==
  /\ lastReload = "ok"
  /\ \E a \in DOMAIN Cfg(live).aliases : Cfg(live).aliases[a] \notin DOMAIN Cfg(live).aliases
  /\ \E a \in DOMAIN Cfg(live).aliases : Cfg(live).aliases[a] \in DOMAIN Cfg(live).aliases

\* The model strings resolve_tier is asked about: the alias keys and tier
\* names of the configs, and a string that is neither.
ModelStrings == {"hint:fast", "fast", "mid", "econ", "expert", "zzz"}

\* The name resolve_tier has to look for: the alias target when s is an
\* alias key, s itself otherwise.
SoughtName(cfg, s) == IF s \in DOMAIN cfg.aliases THEN cfg.aliases[s] ELSE s

\* C23: for the config a request read and every model string s,
\* resolve_tier(s) is a tier of the config named by s's alias target when s
\* is an alias key and named s otherwise; it is none exactly when the config
\* has no tier of that name, so in particular when s is neither an alias key
\* nor a tier name; no returned tier is named anything else.
C23_ResolveTier ==
  \A s \in ModelStrings :
    LET cfg == Cfg(config)
        r   == resolve_tier(cfg, s)
    IN  /\ r = None <=> SoughtName(cfg, s) \notin TierNames(cfg)
        /\ (s \notin DOMAIN cfg.aliases /\ s \notin TierNames(cfg)) => r = None
        /\ r # None =>
             /\ \E i \in DOMAIN cfg.tiers : cfg.tiers[i] = Unwrap(r)
             /\ Unwrap(r).name = SoughtName(cfg, s)
             /\ Unwrap(r).name \in {s} \cup {cfg.aliases[a] : a \in DOMAIN cfg.aliases \cap {s}}

\* route resolved an alias key to the tier its target names, in a config
\* where another string is both a tier name and an alias key and a third
\* string is neither.
C23_Witness ==
  /\ pc = "done" /\ result.kind = "ok"
  /\ model_hint \in DOMAIN Cfg(config).aliases
  /\ target_tier.name = Cfg(config).aliases[model_hint]
  /\ \E s \in ModelStrings : s \in DOMAIN Cfg(config).aliases /\ s \in TierNames(Cfg(config))
  /\ \E s \in ModelStrings : resolve_tier(Cfg(config), s) = None

\* The profile names profile() is asked about.
LookupNames == {"default", "esc", "nosuch", "other"}

\* C24: in the config a request read, a name that is not a profile name
\* gets the `default` profile when there is one, and profile() is none
\* exactly when neither the name nor `default` is a profile name; the
\* profile route goes on with is the one profile() returned.
C24_ProfileFallback ==
  LET cfg == Cfg(config)
  IN  /\ \A x \in LookupNames :
           /\ ("default" \in DOMAIN cfg.profiles /\ x \notin DOMAIN cfg.profiles) =>
                /\ profile_of(cfg, x) = profile_of(cfg, "default")
                /\ profile_of(cfg, x) = Some(cfg.profiles["default"])
           /\ profile_of(cfg, x) = None <=>
                (x \notin DOMAIN cfg.profiles /\ "default" \notin DOMAIN cfg.profiles)
      /\ (reqNo > 0 /\ profile # NoProfile /\ profile_name \notin DOMAIN cfg.profiles) =>
           profile = cfg.profiles["default"]

\* A request under a name that is not a profile name was routed with the
\* `default` profile.
C24_Witness ==
  /\ pc = "done" /\ result.kind = "ok"
  /\ profile_name = "nosuch"
  /\ "default" \in DOMAIN Cfg(config).profiles
  /\ profile = Cfg(config).profiles["default"]

\* C25: every profile of the installed config names an existing tier as
\* its classifier and an existing tier as its max_auto_tier.
C25_TierReferencesValid ==
  \A p \in DOMAIN Cfg(live).profiles :
    /\ Cfg(live).profiles[p].classifier \in TierNames(Cfg(live))
    /\ Cfg(live).profiles[p].max_auto_tier \in TierNames(Cfg(live))

\* C26: once route has found its profile, a model string that is neither an
\* alias key nor a tier name of the snapshot gives the tier named by the
\* profile's classifier as target tier, or, when no tier has that name, the
\* error "classifier tier not found" with no upstream call made; and a body
\* without a model string is routed exactly as a body with model "hint:fast".
C26_ClassifierFallback ==
  /\ []((reqNo > 0 /\ profile # NoProfile
          /\ model_hint \notin DOMAIN Cfg(config).aliases
          /\ model_hint \notin TierNames(Cfg(config))) =>
          IF profile.classifier \in TierNames(Cfg(config))
            THEN /\ target_tier.name = profile.classifier
                 /\ \E i \in DOMAIN Cfg(config).tiers : Cfg(config).tiers[i] = target_tier
            ELSE /\ pc = "done"
                 /\ result = Err("classifier tier not found")
                 /\ calls = << >>)
  /\ [][\A pn \in RouteProfileNames :
          Route(pn, None, FALSE) =>
            /\ model_hint' = "hint:fast"
            /\ Route(pn, Some("hint:fast"), FALSE)]_vars

\* A request for a model that is neither an alias key nor a tier name was
\* answered by the classifier tier, which is not the first tier.
C26_Witness ==
  /\ pc = "done" /\ result.kind = "ok"
  /\ model_hint = "zzz"
  /\ profile.mode = "dispatch"
  /\ calls # << >> /\ calls[1].tier = profile.classifier
  /\ Cfg(config).tiers[1].name # profile.classifier

\* The snapshot a request read has neither the profile it named nor `default`.
NoProfileFor(cfg, name) ==
  name \notin DOMAIN cfg.profiles /\ "default" \notin DOMAIN cfg.profiles

\* C27: a request whose snapshot has neither the named profile nor `default`
\* ends in route's first step with the error "no matching profile and no
\* default profile configured": no upstream call is made, nothing is handed
\* to push, and the step leaves the ring as it was.
C27_NoProfileError ==
  /\ []((reqNo > 0 /\ NoProfileFor(Cfg(config), profile_name)) =>
          /\ pc = "done"
          /\ result = Err("no matching profile and no default profile configured")
          /\ calls = << >>
          /\ pushes = << >>)
  /\ [][(reqNo' = reqNo + 1 /\ NoProfileFor(Cfg(config'), profile_name')) =>
          /\ entries' = entries
          /\ accepted' = accepted]_vars

\* A request named a profile the snapshot does not have, in a config that
\* has a profile but none called `default`, and was refused.
C27_Witness ==
  /\ pc = "done" /\ result.kind = "error"
  /\ profile_name = "nosuch"
  /\ DOMAIN Cfg(config).profiles # {}
  /\ NoProfileFor(Cfg(config), profile_name)

\* C28: a request hands a record to push only in the step in which route
\* returns success, and then exactly one, whatever number of candidates
\* escalate tried before: until then, and when route fails, nothing has been
\* handed over.  That record is the one route returns; it carries the
\* profile name the request came under, the model string of the request and
\* the mode of the profile as routing mode.  With the guard free the push
\* appends exactly that record to the ring.
C28_OneRecordPerSuccess ==
  /\ [](IF pc = "done" /\ result.kind = "ok"
          THEN /\ Len(pushes) = 1
               /\ pushes[1] = result.entry
               /\ pushes[1].profile = Some(profile_name)
               /\ pushes[1].requested_model = Some(model_hint)
               /\ pushes[1].routing_mode = Some(profile.mode)
               /\ pushes[1].routing_mode \in {Some("dispatch"), Some("escalate")}
          ELSE pushes = << >>)
  /\ [][(pushes' # pushes /\ pushes' # << >> /\ guard = "free") =>
          /\ Len(accepted') = Len(accepted) + 1
          /\ entries' # << >>
          /\ entries'[Len(entries')] = pushes'[1]]_vars

\* escalate's first candidate failed or answered insufficiently, a later one
\* was accepted, and the ring holds the one record of the request.
C28_Witness ==
  /\ pc = "done" /\ result.kind = "ok"
  /\ Len(calls) >= 2
  /\ ~Succeeded(calls[1])
  /\ Len(pushes) = 1
  /\ entries = << result.entry >>
  /\ model_hint # result.entry.tier

\* C29: every call goes out through an adapter BackendClient::new built; no
\* adapter for a Messages-style backend was built without a key or with the
\* empty string as its key.
C29_NoEmptyAnthropicKey ==
  \A i \in DOMAIN calls :
    calls[i].provider = "anthropic" =>
      /\ calls[i].api_key # None
      /\ calls[i].api_key # Some("")

\* The positions of a request's system messages and of its other messages.
SystemIdx(ms) == {i \in DOMAIN ms : ms[i].role = "system"}
OtherIdx(ms)  == {i \in DOMAIN ms : ms[i].role # "system"}

\* The texts of the messages at the positions idx, in order, with sep
\* between neighbours.
RECURSIVE JoinedTexts(_, _, _)
JoinedTexts(ms, idx, sep) ==
  IF idx = {} THEN ""
  ELSE LET last == CHOOSE i \in idx : \A j \in idx : j <= i
       IN  IF idx = {last} THEN ms[last].content.text
           ELSE JoinedTexts(ms, idx \ {last}, sep) \o sep \o ms[last].content.text

\* C30: a translated request whose messages include a system message has a
\* top-level system equal to the system messages' contents, in order, joined
\* by two newlines; one without a system message has no system field; and
\* in both cases its messages are the other messages, in order, as they were.
C30_SystemExtracted ==
  translated.kind = "ok" =>
    LET ms  == Unwrap(request.messages)
        got == translated.req
    IN  /\ SystemIdx(ms) # {} => got.system = Some(JoinedTexts(ms, SystemIdx(ms), "\n\n"))
        /\ SystemIdx(ms) = {} => got.system = None
        /\ Len(got.messages) = Cardinality(OtherIdx(ms))
        /\ \A k \in DOMAIN got.messages :
             \E i \in OtherIdx(ms) :
               /\ Cardinality({j \in OtherIdx(ms) : j <= i}) = k
               /\ got.messages[k] = ms[i]

\* The positions of the text blocks of a response's content.
TextIdx(bs) == {i \in DOMAIN bs : bs[i].type = "text"}

\* C31: a translated response carries as assistant content the text of the
\* first block of type text, whatever blocks precede it, and has exactly one
\* choice; a response whose content has no text block translates to an
\* error and no chat-completion object.
C31_FirstTextBlock ==
  /\ completion.kind = "ok" =>
       LET bs == Unwrap(resp.content)
       IN  /\ Len(completion.body.choices) = 1
           /\ \E i \in TextIdx(bs) :
                /\ \A j \in 1..(i - 1) : bs[j].type # "text"
                /\ Some(completion.body.choices[1].message.content) = bs[i].text
  /\ (completion # NotCompleted /\ (resp.content = None \/ TextIdx(Unwrap(resp.content)) = {})) =>
       /\ completion.kind = "error"
       /\ completion.body = NoCompletion

\* A response whose first text block comes after a block of another type
\* and before a text block with another text was translated.
C31_Witness ==
  /\ completion.kind = "ok"
  /\ Unwrap(resp.content)[1].type = "tool_use"
  /\ Cardinality({b.text : b \in {Unwrap(resp.content)[i] : i \in TextIdx(Unwrap(resp.content))}}) = 2

\* The finish_reason the streaming path puts in the frame of a message_delta
\* event that carries the stop reason sr (an Option), as an Option of a string.
StreamedFinishReason(sr) ==
  LET data  == IF sr = None THEN << "{}" >> ELSE << Unwrap(sr) >>
      frame == Unwrap(translate_sse_event(<< "message_delta" >>, data, << "m" >>).out)
  IN  IF frame.finish_reason = None THEN None ELSE Some(Unwrap(frame.finish_reason)[1])

\* What the claim says a stop reason becomes.
Canonical(sr) ==
  IF sr = Some("end_turn") THEN Some("stop")
  ELSE IF sr = Some("max_tokens") THEN Some("length")
  ELSE sr

\* C32 (as stated): whatever stop reason the upstream gave, the buffered
\* translation and the streaming translation carry the same finish_reason:
\* stop for end_turn, length for max_tokens, the value itself otherwise.
C32_SameFinishReason ==
  completion.kind = "ok" =>
    /\ Some(completion.body.choices[1].finish_reason) = StreamedFinishReason(resp.stop_reason)
    /\ StreamedFinishReason(resp.stop_reason) = Canonical(resp.stop_reason)

\* C32 (amended): for a stop reason that is a string both paths carry the
\* same finish_reason, stop for end_turn, length for max_tokens and the
\* string itself otherwise; without a stop reason string the buffered path
\* carries stop and the streaming path carries null.
C32_SameFinishReasonForStrings ==
  completion.kind = "ok" =>
    IF resp.stop_reason # None
      THEN /\ Some(completion.body.choices[1].finish_reason) = StreamedFinishReason(resp.stop_reason)
           /\ StreamedFinishReason(resp.stop_reason) = Canonical(resp.stop_reason)
      ELSE /\ completion.body.choices[1].finish_reason = "stop"
           /\ StreamedFinishReason(resp.stop_reason) = None

\* A response that stopped at max_tokens was translated, and its
\* finish_reason is not the upstream's word.
C32_Witness ==
  /\ completion.kind = "ok"
  /\ resp.stop_reason = Some("max_tokens")
  /\ completion.body.choices[1].finish_reason = "length"

\* What the claim says is_sufficient returns for a response.
ClaimedSufficient(r) ==
  /\ r.content # None
  /\ Unwrap(r.content).chars >= 20
  /\ ~Unwrap(r.content).refusal

\* C33: escalate accepts an answer exactly when the answer has a content
\* string of at least 20 characters that holds no refusal phrase, whichever
\* candidate gave it, whatever was tried before and whatever the config is.
C33_SufficientByContent ==
  (profile # NoProfile /\ profile.mode = "escalate") =>
    \A i \in DOMAIN calls :
      calls[i].outcome.kind = "ok" =>
        ((i = Len(calls) /\ result.kind = "ok") <=> ClaimedSufficient(calls[i].outcome.response))

AtSend == rpc \in {"send", "send_err", "send_done"}

\* The items produced and not yet consumed by the client: those queued on
\* the channel and the one the reader task holds at its send.
Outstanding == Len(chan) + (IF AtSend THEN 1 ELSE 0)

\* C35 (as stated): never more than 32 items are produced and not yet
\* consumed, and while the channel is full the reader task (unless it has
\* ended) is at its send and no upstream chunk is read.
C35_AtMostCapacityOutstanding ==
  ~dropped =>
    /\ Outstanding <= CHANNEL_CAPACITY
    /\ Len(chan) = CHANNEL_CAPACITY => (AtSend \/ rpc = "terminated")

\* C35 (amended): the channel never holds more than 32 items, so with the
\* one the reader task holds at its send at most 33 are produced and not
\* yet consumed; a reader task that is at a send while the channel is full
\* stays there, reads no chunk and queues nothing, until the client takes
\* an item or disconnects.
C35_BackPressure ==
  /\ [](Len(chan) <= CHANNEL_CAPACITY /\ Outstanding <= CHANNEL_CAPACITY + 1)
  /\ [][ (AtSend /\ Len(chan) = CHANNEL_CAPACITY /\ ~dropped
           /\ received' = received /\ ~dropped')
          => (rpc' = rpc /\ consumed' = consumed /\ upstream' = upstream
              /\ sent' = sent /\ chan' = chan) ]_vars

\* The channel is full of frames and the reader task waits at its send with
\* one more, part of the upstream still unread.
C35_Witness ==
  /\ ~dropped
  /\ Len(chan) = CHANNEL_CAPACITY
  /\ rpc = "send"
  /\ upstream # << >>

\* C36: once escalate has read its config and computed its range, max_idx
\* is an index of the tier list it iterates, whatever config a reload put
\* in place before that read, and the call never aborts: it ends with a
\* response or an error value.
C36_RangeWithinTiers ==
  (profile # NoProfile /\ profile.mode = "escalate" /\ pc \in {"esc_loop", "esc_call", "done"}) =>
    /\ result.kind # "panic"
    /\ (pc = "done" => result.kind \in {"ok", "error"})
    /\ max_idx \in 0..(Len(Cfg(config2).tiers) - 1)

\* C37: no message of a translated request is lost: every message whose
\* role is not system is among the output's messages, and every system
\* message's content is one of the parts the top-level system is joined from.
C37_MessagesConserved ==
  translated.kind = "ok" =>
    LET ms  == Unwrap(request.messages)
        got == translated.req
    IN  /\ \A i \in OtherIdx(ms) : \E k \in DOMAIN got.messages : got.messages[k] = ms[i]
        /\ \A i \in SystemIdx(ms) :
             \E parts \in SUBSET SystemIdx(ms) :
               /\ i \in parts
               /\ got.system = Some(JoinedTexts(ms, parts, "\n\n"))

\* C38: a file that comes to rest on content that loads and validates is
\* eventually, and from then on, the live config; and a watcher pass whose
\* load fails leaves last_mtime as it was, so that the next pass loads again.
C38_EventuallyLive ==
  /\ \A c \in StartupContents : (<>[](file = c)) => <>[](live = c)
  /\ [][ (wpc = "loop" /\ mtime # last_mtime /\ Load(file) = None /\ lastReload' = "failed"
           /\ file' = file)
          => (last_mtime' = last_mtime /\ live' = live) ]_vars

\* The candidates of cfg an upstream call can be made to: the tier's
\* backend is configured and its client can be built.
Callable(cfg, i) ==
  /\ At(cfg.tiers, i).backend \in DOMAIN cfg.backends
  /\ BackendClientNew(cfg.backends[At(cfg.tiers, i).backend])

\* C39: the candidate that serves an escalate request is fixed by the
\* config, the profile and the upstreams' answers alone: it is the lowest
\* callable candidate from index 0 whose answer is sufficient, every
\* callable candidate below it was called and turned down, and the tier
\* route resolved from the model field plays no part; when none is
\* sufficient every callable candidate up to max_idx was called.
C39_ServedFromIndexZero ==
  (profile # NoProfile /\ profile.mode = "escalate" /\ pc = "done"
     /\ result.kind \in {"ok", "error"} /\ target_tier # NoTier) =>
    LET cfg  == Cfg(config2)
        last == IF result.kind = "ok" THEN calls[Len(calls)].tier_idx ELSE max_idx
    IN  /\ {calls[i].tier_idx : i \in DOMAIN calls} = {j \in 0..last : Callable(cfg, j)}
        /\ result.kind = "ok" =>
              /\ result.entry.tier = At(cfg.tiers, last).name
              /\ result.response = calls[Len(calls)].outcome.response
              /\ is_sufficient(result.response)
        /\ \A i \in DOMAIN calls :
              (i < Len(calls) \/ result.kind = "error") =>
                ~(calls[i].outcome.kind = "ok" /\ is_sufficient(calls[i].outcome.response))

\* A request whose model resolved to a tier other than the first candidate
\* was served by the first candidate.
C39_Witness ==
  /\ profile.mode = "escalate"
  /\ pc = "done"
  /\ result.kind = "ok"
  /\ calls[Len(calls)].tier_idx = 0
  /\ model_hint # "hint:fast"
  /\ target_tier.name # result.entry.tier

\* C40 (as stated): the answer of GET /admin/traffic with a limit of at
\* least the number of entries ever pushed, and so of at least the buffered
\* count, has stats.total_requests equal to the number of entries it returns.
C40_TotalMatchesEntries ==
  (tpc = "done" /\ traffic_out.limit >= Len(accepted)) =>
    traffic_out.total_requests = Len(traffic_out.entries)

\* C40 (amended): entries and stats come from two reads of the ring, each
\* of one state of it: the entries returned are the newest first of the
\* ring as the first read saw it, and with a limit of at least the buffered
\* count the total is at least the number of entries returned and exceeds
\* it by at most the pushes accepted between the two reads - the two are
\* equal when no push came between.
C40_TwoSnapshots ==
  /\ tpc \in {"stats", "stats_locked", "done"} =>
        \A i \in DOMAIN traffic_out.entries :
          traffic_out.entries[i] = accepted[traffic_out.seen + 1 - i]
  /\ (tpc = "done" /\ traffic_out.limit >= Len(accepted)) =>
        /\ traffic_out.total_requests >= Len(traffic_out.entries)
        /\ traffic_out.total_requests <=
             Len(traffic_out.entries) + (traffic_out.counted - traffic_out.seen)

\* A push was accepted between the handler's two reads, and the answer
\* counts one request more than it lists (in a ring with room for it).
C40_Witness ==
  /\ tpc = "done"
  /\ capacity >= 2
  /\ traffic_out.limit >= Len(accepted)
  /\ traffic_out.counted = traffic_out.seen + 1
  /\ traffic_out.total_requests = Len(traffic_out.entries) + 1

====
